---------------------------- MODULE Spec2Model ----------------------------
(***************************************************************************)
(* Voter search: the name/voter-ID resolution of components/Dashboard.tsx  *)
(* (performSearch and the functions it calls) and the transliteration      *)
(* helper lib/transliterate.js it imports.                                 *)
(*                                                                         *)
(* A JavaScript string is modelled as the sequence of its UTF-16 code      *)
(* units (natural numbers): 97 is 'a', 32 the space, 95 the underscore,    *)
(* 2304..2431 the Devanagari block.                                        *)
(***************************************************************************)
EXTENDS Integers, Sequences, FiniteSets, TLC

VARIABLES
  formData,      \* SearchFormData handed to performSearch
  voters,        \* remote store: voters/{id} -> VoterData
  index,         \* remote store: <<index name, key>> -> set of voter-IDs
  pc,            \* position of the one performSearch invocation
  searchKeys,    \* searchByNameInIndex: const searchKeys
  probe,         \* searchByNameInIndex: <<tier, key>> position of the two for loops
  voterIds,      \* searchByNameInIndex: the Set voterIds, in insertion order
  fetchIds,      \* getVotersByIds: parameter voterIds
  batchStart,    \* getVotersByIds: loop variable i (0-based)
  batchResults,  \* getVotersByIds: what the settled promises of the batch resolved to
  results,       \* getVotersByIds: const results
  normId,        \* searchByVoterId: parameter voterId (trimmed, upper-cased)
  rv,            \* what performSearch resolved to
  requests,      \* every remote read get(ref(db, path)) issued so far, in issue
                 \* order, each with its status: "pending", "found", "absent", "error"
  batches,       \* getVotersByIds: the batches sliced so far
  rejectable,    \* number of remote reads the network still rejects in this search
  value,         \* the string handed to transliterateToMarathi
  transliterated, \* const transliterated = transliterateToMarathi(value)
  variation,     \* what the transliterateToMarathi written in TypeScript returns
                 \* for value (getTransliterationVariations adds it to variations)
  searchQuery,   \* Dashboard (search-as-you-type): state searchQuery
  timeoutId,     \* Dashboard: the pending setTimeout of the search effect
  calls,         \* Dashboard: every searchVotersInFirebase call, in issue order
  searchResults, \* Dashboard: state searchResults
  searchPerformed, \* Dashboard: state searchPerformed
  isLoading,     \* Dashboard: state isLoading
  transliterationInfo, \* Dashboard: state transliterationInfo, <<>> for null
  activeTab,     \* Dashboard (form): state activeTab
  transliterationHints, \* Dashboard (form): state transliterationHints
  searchType,    \* Dashboard (form): state searchType, <<>> for null
  searchStats,   \* Dashboard (form): state searchStats
  searchForm,    \* handleSearch: the formData of the invocations that await
                 \* performSearch, in the order they started
  alerts         \* number of alert() calls handleSearch has made

\* The variables of one transliterateToMarathi call.
textVars == <<value, transliterated, variation>>

\* The state of the Dashboard component with the search-as-you-type box.
uiVars == <<searchQuery, timeoutId, calls, searchResults, searchPerformed, isLoading,
            transliterationInfo>>

\* The state of the Dashboard component with the search form, apart from
\* formData, searchResults, searchPerformed and isLoading.
formVars == <<activeTab, transliterationHints, searchType, searchStats, searchForm, alerts>>

vars == <<formData, voters, index, pc, searchKeys, probe, voterIds, fetchIds,
          batchStart, batchResults, results, normId, rv, requests,
          batches, rejectable, textVars, uiVars, formVars>>

-----------------------------------------------------------------------------
(* Strings *)

\* White space of String.prototype.trim and of the regular expression \s.
IsSpace(c) ==
  c \in {9, 10, 11, 12, 13, 32, 160, 5760, 8232, 8233, 8239, 8287, 12288, 65279}
      \cup (8192..8202)

\* String.prototype.toLowerCase on the code units the model uses (ASCII letters
\* change, Devanagari has no case).
ToLowerCase(s) == [i \in 1..Len(s) |-> IF s[i] \in 65..90 THEN s[i] + 32 ELSE s[i]]

\* String.prototype.toUpperCase, likewise.
ToUpperCase(s) == [i \in 1..Len(s) |-> IF s[i] \in 97..122 THEN s[i] - 32 ELSE s[i]]

\* String.prototype.trim
Trim(s) ==
  LET keep == {i \in 1..Len(s) : ~IsSpace(s[i])}
      Min(S) == CHOOSE x \in S : \A y \in S : x <= y
      Max(S) == CHOOSE x \in S : \A y \in S : x >= y
  IN  IF keep = {} THEN <<>> ELSE SubSeq(s, Min(keep), Max(keep))

\* String.prototype.includes
Includes(s, t) ==
  \E i \in 0..(Len(s) - Len(t)) : SubSeq(s, i + 1, i + Len(t)) = t

\* text.split(/\s+/): cut at every maximal run of white space
RECURSIVE SplitWs(_)
SplitWs(s) ==
  LET ws == {i \in 1..Len(s) : IsSpace(s[i])}
  IN  IF ws = {} THEN <<s>>
      ELSE LET i == CHOOSE x \in ws : \A y \in ws : x <= y
               rest == {j \in (i + 1)..Len(s) : ~IsSpace(s[j])}
               j == IF rest = {} THEN Len(s) + 1
                    ELSE CHOOSE x \in rest : \A y \in rest : x <= y
           IN  <<SubSeq(s, 1, i - 1)>> \o SplitWs(SubSeq(s, j, Len(s)))

\* String.prototype.split with a one-character separator: cut at every c
RECURSIVE SplitChar(_, _)
SplitChar(s, c) ==
  LET at == {i \in 1..Len(s) : s[i] = c}
  IN  IF at = {} THEN <<s>>
      ELSE LET i == CHOOSE x \in at : \A y \in at : x <= y
           IN  <<SubSeq(s, 1, i - 1)>> \o SplitChar(SubSeq(s, i + 1, Len(s)), c)

\* Array.prototype.join with a one-character separator
RECURSIVE Join(_, _)
Join(words, sep) ==
  IF Len(words) = 0 THEN <<>>
  ELSE IF Len(words) = 1 THEN words[1]
  ELSE words[1] \o <<sep>> \o Join(Tail(words), sep)

-----------------------------------------------------------------------------
(* lib/transliterate.js *)

\* englishToDevanagariMap: the romanization table as the object literal evaluates
\* (a key written twice keeps its last value: 't', 'th', 'd', 'dh', 'n', 'l', 'm',
\* 'h' and the vowels that reappear as vowel signs). Keys and values are sequences
\* of UTF-16 code units.
englishToDevanagariMap ==
  (<<97>> :> <<2309>>)  \* line 6: 'a'
  @@ (<<97, 97>> :> <<2366>>)  \* line 23: 'aa'
  @@ (<<105>> :> <<2367>>)  \* line 23: 'i'
  @@ (<<101, 101>> :> <<2368>>)  \* line 23: 'ee'
  @@ (<<117>> :> <<2369>>)  \* line 23: 'u'
  @@ (<<111, 111>> :> <<2370>>)  \* line 23: 'oo'
  @@ (<<101>> :> <<2375>>)  \* line 24: 'e'
  @@ (<<97, 105>> :> <<2376>>)  \* line 24: 'ai'
  @@ (<<111>> :> <<2379>>)  \* line 24: 'o'
  @@ (<<97, 117>> :> <<2380>>)  \* line 24: 'au'
  @@ (<<107>> :> <<2325>>)  \* line 10: 'k'
  @@ (<<107, 104>> :> <<2326>>)  \* line 10: 'kh'
  @@ (<<103>> :> <<2327>>)  \* line 10: 'g'
  @@ (<<103, 104>> :> <<2328>>)  \* line 10: 'gh'
  @@ (<<110, 103>> :> <<2329>>)  \* line 10: 'ng'
  @@ (<<99, 104>> :> <<2330>>)  \* line 11: 'ch'
  @@ (<<99, 104, 104>> :> <<2331>>)  \* line 11: 'chh'
  @@ (<<106>> :> <<2332>>)  \* line 11: 'j'
  @@ (<<106, 104>> :> <<2333>>)  \* line 11: 'jh'
  @@ (<<110, 121>> :> <<2334>>)  \* line 11: 'ny'
  @@ (<<116>> :> <<2340>>)  \* line 13: 't'
  @@ (<<116, 104>> :> <<2341>>)  \* line 13: 'th'
  @@ (<<100>> :> <<2342>>)  \* line 13: 'd'
  @@ (<<100, 104>> :> <<2343>>)  \* line 13: 'dh'
  @@ (<<110>> :> <<2344>>)  \* line 13: 'n'
  @@ (<<112>> :> <<2346>>)  \* line 14: 'p'
  @@ (<<112, 104>> :> <<2347>>)  \* line 14: 'ph'
  @@ (<<98>> :> <<2348>>)  \* line 14: 'b'
  @@ (<<98, 104>> :> <<2349>>)  \* line 14: 'bh'
  @@ (<<109>> :> <<2306>>)  \* line 27: 'm'
  @@ (<<121>> :> <<2351>>)  \* line 15: 'y'
  @@ (<<114>> :> <<2352>>)  \* line 15: 'r'
  @@ (<<108>> :> <<2355>>)  \* line 17: 'l'
  @@ (<<118>> :> <<2357>>)  \* line 15: 'v'
  @@ (<<119>> :> <<2357>>)  \* line 15: 'w'
  @@ (<<115, 104>> :> <<2358>>)  \* line 16: 'sh'
  @@ (<<115, 115>> :> <<2359>>)  \* line 16: 'ss'
  @@ (<<115>> :> <<2360>>)  \* line 16: 's'
  @@ (<<104>> :> <<2307>>)  \* line 27: 'h'
  @@ (<<107, 115, 104>> :> <<2325, 2381, 2359>>)  \* line 20: 'ksh'
  @@ (<<116, 114>> :> <<2340, 2381, 2352>>)  \* line 20: 'tr'
  @@ (<<103, 121>> :> <<2332, 2381, 2334>>)  \* line 20: 'gy'

\* commonNamesMap: the curated dictionary of given names and surnames.
commonNamesMap ==
  (<<98, 97, 100, 97, 108, 101>> :> <<2348, 2343, 2366, 2354, 2375>>)  \* line 33: 'badale'
  @@ (<<112, 97, 116, 105, 108>> :> <<2346, 2366, 2335, 2368, 2354>>)  \* line 33: 'patil'
  @@ (<<100, 101, 115, 104, 109, 117, 107, 104>> :> <<2342, 2375, 2358, 2350, 2369, 2326>>)  \* line 34: 'deshmukh'
  @@ (<<106, 97, 100, 104, 97, 118>> :> <<2332, 2366, 2343, 2357>>)  \* line 34: 'jadhav'
  @@ (<<109, 111, 114, 101>> :> <<2350, 2379, 2352, 2375>>)  \* line 34: 'more'
  @@ (<<115, 104, 105, 110, 100, 101>> :> <<2358, 2367, 2306, 2342, 2375>>)  \* line 35: 'shinde'
  @@ (<<112, 97, 119, 97, 114>> :> <<2346, 2357, 2366, 2352>>)  \* line 35: 'pawar'
  @@ (<<103, 97, 105, 107, 119, 97, 100>> :> <<2327, 2366, 2351, 2325, 2357, 2366, 2337>>)  \* line 35: 'gaikwad'
  @@ (<<116, 104, 97, 107, 117, 114>> :> <<2336, 2366, 2325, 2370, 2352>>)  \* line 36: 'thakur'
  @@ (<<107, 97, 109, 98, 108, 101>> :> <<2325, 2366, 2306, 2348, 2355, 2375>>)  \* line 36: 'kamble'
  @@ (<<99, 104, 97, 118, 97, 110>> :> <<2330, 2357, 2381, 2361, 2366, 2339>>)  \* line 36: 'chavan'
  @@ (<<114, 97, 117, 116>> :> <<2352, 2366, 2314, 2340>>)  \* line 37: 'raut'
  @@ (<<115, 97, 108, 117, 110, 107, 104, 101>> :> <<2360, 2366, 2355, 2369, 2306, 2326, 2375>>)  \* line 37: 'salunkhe'
  @@ (<<107, 111, 107, 97, 116, 101>> :> <<2325, 2379, 2325, 2366, 2335, 2375>>)  \* line 37: 'kokate'
  @@ (<<98, 104, 111, 115, 97, 108, 101>> :> <<2349, 2379, 2360, 2354, 2375>>)  \* line 38: 'bhosale'
  @@ (<<105, 110, 103, 108, 101>> :> <<2311, 2306, 2327, 2355, 2375>>)  \* line 38: 'ingle'
  @@ (<<97, 109, 114, 117, 116, 107, 97, 114>> :> <<2309, 2350, 2371, 2340, 2325, 2352>>)  \* line 38: 'amrutkar'
  @@ (<<97, 109, 111, 108>> :> <<2309, 2350, 2379, 2354>>)  \* line 41: 'amol'
  @@ (<<115, 117, 114, 101, 115, 104>> :> <<2360, 2369, 2352, 2375, 2358>>)  \* line 41: 'suresh'
  @@ (<<114, 97, 107, 101, 115, 104>> :> <<2352, 2366, 2325, 2375, 2358>>)  \* line 41: 'rakesh'
  @@ (<<109, 97, 104, 101, 115, 104>> :> <<2350, 2361, 2375, 2358>>)  \* line 42: 'mahesh'
  @@ (<<100, 105, 110, 101, 115, 104>> :> <<2342, 2367, 2344, 2375, 2358>>)  \* line 42: 'dinesh'
  @@ (<<103, 97, 106, 97, 110, 97, 110>> :> <<2327, 2332, 2366, 2344, 2344>>)  \* line 42: 'gajanan'
  @@ (<<118, 105, 116, 116, 104, 97, 108>> :> <<2357, 2367, 2336, 2381, 2336, 2354>>)  \* line 43: 'vitthal'
  @@ (<<103, 97, 110, 101, 115, 104>> :> <<2327, 2339, 2375, 2358>>)  \* line 43: 'ganesh'
  @@ (<<115, 104, 105, 118, 97, 106, 105>> :> <<2358, 2367, 2357, 2366, 2332, 2368>>)  \* line 43: 'shivaji'
  @@ (<<115, 97, 110, 106, 97, 121>> :> <<2360, 2306, 2332, 2351>>)  \* line 44: 'sanjay'
  @@ (<<118, 105, 106, 97, 121>> :> <<2357, 2367, 2332, 2351>>)  \* line 44: 'vijay'
  @@ (<<97, 106, 97, 121>> :> <<2309, 2332, 2351>>)  \* line 44: 'ajay'
  @@ (<<114, 97, 109>> :> <<2352, 2366, 2350>>)  \* line 45: 'ram'
  @@ (<<107, 114, 105, 115, 104, 110, 97>> :> <<2325, 2371, 2359, 2381, 2339>>)  \* line 45: 'krishna'
  @@ (<<115, 104, 105, 118, 97>> :> <<2358, 2367, 2357>>)  \* line 45: 'shiva'
  @@ (<<100, 97, 115, 104, 114, 97, 116, 104>> :> <<2342, 2358, 2352, 2341>>)  \* line 48: 'dashrath'
  @@ (<<108, 97, 120, 109, 97, 110>> :> <<2354, 2325, 2381, 2359, 2381, 2350, 2339>>)  \* line 48: 'laxman'
  @@ (<<114, 97, 109, 100, 97, 115>> :> <<2352, 2366, 2350, 2342, 2366, 2360>>)  \* line 48: 'ramdas'
  @@ (<<109, 97, 100, 104, 97, 118>> :> <<2350, 2366, 2343, 2357>>)  \* line 49: 'madhav'
  @@ (<<115, 104, 97, 110, 107, 97, 114>> :> <<2358, 2306, 2325, 2352>>)  \* line 49: 'shankar'
  @@ (<<118, 105, 115, 104, 110, 117>> :> <<2357, 2367, 2359, 2381, 2339, 2369>>)  \* line 49: 'vishnu'
  @@ (<<98, 104, 97, 114, 97, 116>> :> <<2349, 2352, 2340>>)  \* line 50: 'bharat'
  @@ (<<115, 104, 97, 116, 114, 117, 103, 104, 97, 110>> :> <<2358, 2340, 2381, 2352, 2369, 2328, 2381, 2344>>)  \* line 50: 'shatrughan'
  @@ (<<104, 97, 110, 117, 109, 97, 110>> :> <<2361, 2344, 2369, 2350, 2366, 2344>>)  \* line 50: 'hanuman'
  @@ (<<109, 97, 110, 103, 101, 115, 104>> :> <<2350, 2306, 2327, 2375, 2358>>)  \* line 53: 'mangesh'
  @@ (<<106, 105, 106, 97, 98, 97, 105>> :> <<2332, 2367, 2332, 2366, 2348, 2366, 2312>>)  \* line 53: 'jijabai'
  @@ (<<118, 105, 108, 97, 115>> :> <<2357, 2367, 2354, 2366, 2360>>)  \* line 53: 'vilas'
  @@ (<<100, 97, 116, 116, 97>> :> <<2342, 2340, 2381, 2340, 2366>>)  \* line 54: 'datta'
  @@ (<<115, 111, 112, 97, 110>> :> <<2360, 2379, 2346, 2366, 2344>>)  \* line 54: 'sopan'
  @@ (<<114, 111, 104, 105, 100, 97, 115>> :> <<2352, 2379, 2361, 2367, 2342, 2366, 2360>>)  \* line 54: 'rohidas'
  @@ (<<114, 97, 109, 99, 104, 97, 110, 100, 114, 97>> :> <<2352, 2366, 2350, 2330, 2306, 2342, 2381, 2352>>)  \* line 55: 'ramchandra'
  @@ (<<109, 97, 100, 104, 117, 107, 97, 114>> :> <<2350, 2343, 2369, 2325, 2352>>)  \* line 55: 'madhukar'
  @@ (<<115, 97, 118, 105, 116, 114, 105>> :> <<2360, 2366, 2357, 2367, 2340, 2381, 2352, 2368>>)  \* line 58: 'savitri'
  @@ (<<108, 97, 120, 109, 105>> :> <<2354, 2325, 2381, 2359, 2381, 2350, 2368>>)  \* line 58: 'laxmi'
  @@ (<<115, 97, 114, 97, 115, 119, 97, 116, 105>> :> <<2360, 2352, 2360, 2381, 2357, 2340, 2368>>)  \* line 59: 'saraswati'
  @@ (<<112, 97, 114, 118, 97, 116, 105>> :> <<2346, 2366, 2352, 2381, 2357, 2340, 2368>>)  \* line 59: 'parvati'
  @@ (<<114, 97, 100, 104, 97>> :> <<2352, 2366, 2343, 2366>>)  \* line 59: 'radha'
  @@ (<<115, 105, 116, 97>> :> <<2360, 2368, 2340, 2366>>)  \* line 60: 'sita'
  @@ (<<103, 97, 110, 103, 97>> :> <<2327, 2306, 2327, 2366>>)  \* line 60: 'ganga'
  @@ (<<121, 97, 109, 117, 110, 97>> :> <<2351, 2350, 2369, 2344, 2366>>)  \* line 60: 'yamuna'

\* TransliterateFrom that drops a character that is no key.
RECURSIVE TransliterateFromDropping(_, _)
TransliterateFromDropping(word, i) ==
  IF i > Len(word) THEN <<>>
  ELSE IF i + 2 <= Len(word) /\ SubSeq(word, i, i + 2) \in DOMAIN englishToDevanagariMap
    THEN englishToDevanagariMap[SubSeq(word, i, i + 2)]
           \o TransliterateFromDropping(word, i + 3)
  ELSE IF i + 1 <= Len(word) /\ SubSeq(word, i, i + 1) \in DOMAIN englishToDevanagariMap
    THEN englishToDevanagariMap[SubSeq(word, i, i + 1)]
           \o TransliterateFromDropping(word, i + 2)
  ELSE IF <<word[i]>> \in DOMAIN englishToDevanagariMap
    THEN englishToDevanagariMap[<<word[i]>>] \o TransliterateFromDropping(word, i + 1)
  ELSE TransliterateFromDropping(word, i + 1)

\* The while loop of transliterateToMarathi on one word, from 1-based position i:
\* a three-character key first, then a two-character key, then one character,
\* which is copied when it is no key.
RECURSIVE TransliterateFrom(_, _)
TransliterateFrom(word, i) ==
  IF i > Len(word) THEN <<>>
  ELSE IF i + 2 <= Len(word) /\ SubSeq(word, i, i + 2) \in DOMAIN englishToDevanagariMap
    THEN englishToDevanagariMap[SubSeq(word, i, i + 2)] \o TransliterateFrom(word, i + 3)
  ELSE IF i + 1 <= Len(word) /\ SubSeq(word, i, i + 1) \in DOMAIN englishToDevanagariMap
    THEN englishToDevanagariMap[SubSeq(word, i, i + 1)] \o TransliterateFrom(word, i + 2)
  ELSE IF <<word[i]>> \in DOMAIN englishToDevanagariMap
    THEN englishToDevanagariMap[<<word[i]>>] \o TransliterateFrom(word, i + 1)
  ELSE <<word[i]>> \o TransliterateFrom(word, i + 1)

\* The properties commonNamesMap, an object literal, inherits from
\* Object.prototype under a name a lower-cased word can be: "constructor" and
\* "__proto__". commonNamesMap[word] is then an object, which is truthy and
\* which join(' ') writes as a string: "function Object() { [native code] }"
\* (the white space between the braces varies with the engine) and
\* "[object Object]".
inheritedProperties ==
  (<<99, 111, 110, 115, 116, 114, 117, 99, 116, 111, 114>> :>
     <<102, 117, 110, 99, 116, 105, 111, 110, 32, 79, 98, 106, 101, 99, 116,
     40, 41, 32, 123, 32, 91, 110, 97, 116, 105, 118, 101, 32, 99, 111, 100,
     101, 93, 32, 125>>)
  @@ (<<95, 95, 112, 114, 111, 116, 111, 95, 95>> :>
        <<91, 111, 98, 106, 101, 99, 116, 32, 79, 98, 106, 101, 99, 116, 93>>)

\* TransliterateWord without the dictionary.
TransliterateWordGreedy(word) == TransliterateFrom(word, 1)

\* The callback of words.map: the dictionary first, the greedy scan otherwise.
TransliterateWord(word) ==
  IF word \in DOMAIN commonNamesMap THEN commonNamesMap[word]
  ELSE IF word \in DOMAIN inheritedProperties THEN inheritedProperties[word]
  ELSE TransliterateFrom(word, 1)

\* transliterateToMarathi(englishText) of lib/transliterate.js, the module
\* Dashboard.tsx imports as '@/lib/transliterate'.
transliterateToMarathi(englishText) ==
  IF englishText = <<>> THEN <<>>
  ELSE LET text == Trim(ToLowerCase(englishText))
           words == SplitWs(text)
       IN  Join([k \in 1..Len(words) |-> TransliterateWord(words[k])], 32)

\* containsMarathi(text)
containsMarathi(text) == \E i \in 1..Len(text) : text[i] \in 2304..2431

-----------------------------------------------------------------------------
(* components/Dashboard.tsx: the transliteration module written in TypeScript,
   with tables of its own *)

\* transliterationMap of the transliteration module written in TypeScript
transliterationMap ==
  (<<97>> :> <<2309>>)  \* line 2504: 'a'
  @@ (<<97, 97>> :> <<2310>>)  \* line 2504: 'aa'
  @@ (<<105>> :> <<2311>>)  \* line 2504: 'i'
  @@ (<<105, 105>> :> <<2312>>)  \* line 2504: 'ii'
  @@ (<<117>> :> <<2313>>)  \* line 2504: 'u'
  @@ (<<117, 117>> :> <<2314>>)  \* line 2504: 'uu'
  @@ (<<101>> :> <<2319>>)  \* line 2505: 'e'
  @@ (<<97, 105>> :> <<2320>>)  \* line 2505: 'ai'
  @@ (<<111>> :> <<2323>>)  \* line 2505: 'o'
  @@ (<<97, 117>> :> <<2324>>)  \* line 2505: 'au'
  @@ (<<107>> :> <<2325>>)  \* line 2508: 'k'
  @@ (<<107, 104>> :> <<2326>>)  \* line 2508: 'kh'
  @@ (<<103>> :> <<2327>>)  \* line 2508: 'g'
  @@ (<<103, 104>> :> <<2328>>)  \* line 2508: 'gh'
  @@ (<<110, 103>> :> <<2329>>)  \* line 2508: 'ng'
  @@ (<<99, 104>> :> <<2330>>)  \* line 2509: 'ch'
  @@ (<<99, 104, 104>> :> <<2331>>)  \* line 2509: 'chh'
  @@ (<<106>> :> <<2332>>)  \* line 2509: 'j'
  @@ (<<106, 104>> :> <<2333>>)  \* line 2509: 'jh'
  @@ (<<110, 121>> :> <<2334>>)  \* line 2509: 'ny'
  @@ (<<116>> :> <<2340>>)  \* line 2510: 't'
  @@ (<<116, 104>> :> <<2341>>)  \* line 2510: 'th'
  @@ (<<100>> :> <<2342>>)  \* line 2510: 'd'
  @@ (<<100, 104>> :> <<2343>>)  \* line 2510: 'dh'
  @@ (<<110>> :> <<2344>>)  \* line 2510: 'n'
  @@ (<<112>> :> <<2346>>)  \* line 2511: 'p'
  @@ (<<112, 104>> :> <<2347>>)  \* line 2511: 'ph'
  @@ (<<98>> :> <<2348>>)  \* line 2511: 'b'
  @@ (<<98, 104>> :> <<2349>>)  \* line 2511: 'bh'
  @@ (<<109>> :> <<2350>>)  \* line 2511: 'm'
  @@ (<<121>> :> <<2351>>)  \* line 2512: 'y'
  @@ (<<114>> :> <<2352>>)  \* line 2512: 'r'
  @@ (<<108>> :> <<2354>>)  \* line 2512: 'l'
  @@ (<<118>> :> <<2357>>)  \* line 2512: 'v'
  @@ (<<119>> :> <<2357>>)  \* line 2512: 'w'
  @@ (<<115>> :> <<2360>>)  \* line 2513: 's'
  @@ (<<115, 104>> :> <<2358>>)  \* line 2513: 'sh'
  @@ (<<115, 104, 104>> :> <<2359>>)  \* line 2513: 'shh'
  @@ (<<104>> :> <<2361>>)  \* line 2513: 'h'
  @@ (<<116, 116>> :> <<2335>>)  \* line 2516: 'tt'
  @@ (<<116, 116, 104>> :> <<2336>>)  \* line 2516: 'tth'
  @@ (<<100, 100>> :> <<2337>>)  \* line 2516: 'dd'
  @@ (<<100, 100, 104>> :> <<2338>>)  \* line 2516: 'ddh'
  @@ (<<110, 110>> :> <<2339>>)  \* line 2516: 'nn'
  @@ (<<107, 115, 104>> :> <<2325, 2381, 2359>>)  \* line 2517: 'ksh'
  @@ (<<103, 121>> :> <<2332, 2381, 2334>>)  \* line 2517: 'gy'
  @@ (<<107, 97>> :> <<2325>>)  \* line 2520: 'ka'
  @@ (<<107, 105>> :> <<2325, 2367>>)  \* line 2520: 'ki'
  @@ (<<107, 105, 105>> :> <<2325, 2368>>)  \* line 2520: 'kii'
  @@ (<<107, 117>> :> <<2325, 2369>>)  \* line 2520: 'ku'
  @@ (<<107, 117, 117>> :> <<2325, 2370>>)  \* line 2520: 'kuu'
  @@ (<<107, 101>> :> <<2325, 2375>>)  \* line 2521: 'ke'
  @@ (<<107, 97, 105>> :> <<2325, 2376>>)  \* line 2521: 'kai'
  @@ (<<107, 111>> :> <<2325, 2379>>)  \* line 2521: 'ko'
  @@ (<<107, 97, 117>> :> <<2325, 2380>>)  \* line 2521: 'kau'

\* commonWordMap, the dictionary of that module
commonWordMap ==
  (<<97, 110, 107, 117, 115, 104>> :> <<2309, 2306, 2325, 2369, 2358>>)  \* line 2527: 'ankush'
  @@ (<<97, 110, 97, 110, 100, 97>> :> <<2310, 2344, 2306, 2342>>)  \* line 2528: 'ananda'
  @@ (<<115, 97, 114, 103, 97, 114>> :> <<2360, 2352, 2327, 2352>>)  \* line 2529: 'sargar'
  @@ (<<100, 97, 115, 104, 114, 97, 116, 104>> :> <<2342, 2358, 2352, 2341>>)  \* line 2530: 'dashrath'
  @@ (<<117, 115, 104, 97>> :> <<2313, 2359, 2366>>)  \* line 2531: 'usha'
  @@ (<<114, 97, 110, 106, 97, 110, 97>> :> <<2352, 2306, 2332, 2344, 2366>>)  \* line 2532: 'ranjana'
  @@ (<<98, 97, 100, 104, 97, 108, 101>> :> <<2348, 2343, 2366, 2354, 2375>>)  \* line 2533: 'badhale'
  @@ (<<109, 97, 110, 103, 101, 115, 104>> :> <<2350, 2306, 2327, 2375, 2358>>)  \* line 2534: 'mangesh'
  @@ (<<114, 97, 109, 100, 97, 115>> :> <<2352, 2366, 2350, 2342, 2366, 2360>>)  \* line 2535: 'ramdas'
  @@ (<<112, 97, 116, 105, 108>> :> <<2346, 2366, 2335, 2368, 2354>>)  \* line 2538: 'patil'
  @@ (<<112, 97, 119, 97, 114>> :> <<2346, 2357, 2366, 2352>>)  \* line 2539: 'pawar'
  @@ (<<107, 117, 108, 107, 97, 114, 110, 105>> :> <<2325, 2369, 2354, 2325, 2352, 2381, 2339, 2368>>)  \* line 2540: 'kulkarni'
  @@ (<<100, 101, 115, 104, 109, 117, 107, 104>> :> <<2342, 2375, 2358, 2350, 2369, 2326>>)  \* line 2541: 'deshmukh'
  @@ (<<106, 97, 100, 104, 97, 118>> :> <<2332, 2366, 2343, 2357>>)  \* line 2542: 'jadhav'
  @@ (<<109, 111, 114, 101>> :> <<2350, 2379, 2352, 2375>>)  \* line 2543: 'more'
  @@ (<<115, 104, 105, 110, 100, 101>> :> <<2358, 2367, 2306, 2342, 2375>>)  \* line 2544: 'shinde'
  @@ (<<103, 97, 105, 107, 119, 97, 100>> :> <<2327, 2366, 2351, 2325, 2357, 2366, 2337>>)  \* line 2545: 'gaikwad'
  @@ (<<114, 97, 111>> :> <<2352, 2366, 2357>>)  \* line 2546: 'rao'
  @@ (<<114, 101, 100, 100, 121>> :> <<2352, 2375, 2337, 2381, 2337, 2368>>)  \* line 2547: 'reddy'
  @@ (<<98, 97, 105>> :> <<2348, 2366, 2312>>)  \* line 2548: 'bai'
  @@ (<<100, 101, 118, 105>> :> <<2342, 2375, 2357, 2368>>)  \* line 2549: 'devi'

\* String.prototype.substr(start, length) with a 1-based start inside the string:
\* what is left of the string when fewer than `length` characters follow.
Substr(s, start, length) ==
  SubSeq(s, start, IF start + length - 1 < Len(s) THEN start + length - 1 ELSE Len(s))

\* transliterateWord: the len at which `for (let len = 3; len >= 1; len--)`
\* breaks at position i, 0 when it runs to its end without a match.
MatchedLen(word, i) ==
  IF Substr(word, i, 3) \in DOMAIN transliterationMap THEN 3
  ELSE IF Substr(word, i, 2) \in DOMAIN transliterationMap THEN 2
  ELSE IF Substr(word, i, 1) \in DOMAIN transliterationMap THEN 1
  ELSE 0

\* transliterateWord: the while loop from 1-based position i. A match adds the
\* value of the substring and adds len to i, also when the substring is shorter
\* than len; without a match the character is copied and i goes up by one.
RECURSIVE transliterateWordFrom(_, _)
transliterateWordFrom(word, i) ==
  IF i > Len(word) THEN <<>>
  ELSE LET len == MatchedLen(word, i)
       IN  IF len > 0
             THEN transliterationMap[Substr(word, i, len)]
                    \o transliterateWordFrom(word, i + len)
             ELSE <<word[i]>> \o transliterateWordFrom(word, i + 1)

\* transliterateWord(word)
transliterateWord(word) == transliterateWordFrom(word, 1)

\* transliterateToMarathi of the module written in TypeScript: native script
\* and the empty string are returned as they are; commonWordMap[word] is read
\* through the prototype chain like commonNamesMap[word].
transliterateToMarathiVariant(englishText) ==
  IF englishText = <<>> \/ containsMarathi(englishText) THEN englishText
  ELSE LET text == Trim(ToLowerCase(englishText))
           words == SplitWs(text)
       IN  Join([k \in 1..Len(words) |->
                   IF words[k] \in DOMAIN commonWordMap THEN commonWordMap[words[k]]
                   ELSE IF words[k] \in DOMAIN inheritedProperties
                     THEN inheritedProperties[words[k]]
                   ELSE transliterateWord(words[k])], 32)

\* The while loop of transliterateToMarathi in lib/transliterate.js: what one
\* turn at 1-based position i adds to i.
Advance(word, i) ==
  IF i + 2 <= Len(word) /\ SubSeq(word, i, i + 2) \in DOMAIN englishToDevanagariMap THEN 3
  ELSE IF i + 1 <= Len(word) /\ SubSeq(word, i, i + 1) \in DOMAIN englishToDevanagariMap
    THEN 2
  ELSE 1

-----------------------------------------------------------------------------
(* components/Dashboard.tsx: pure helpers *)

\* parseMarathiName that takes the first of two tokens for the surname.
parseMarathiNameSwapped(fullName) ==
  LET parts == SplitChar(fullName, 32)
  IN  IF Len(parts) >= 3
        THEN [last |-> parts[Len(parts)], first |-> parts[1],
              middle |-> Join(SubSeq(parts, 2, Len(parts) - 1), 32)]
      ELSE IF Len(parts) = 2
        THEN [last |-> parts[1], first |-> parts[2], middle |-> <<>>]
      ELSE [last |-> parts[1], first |-> parts[1], middle |-> <<>>]

\* parseMarathiName(fullName)
parseMarathiName(fullName) ==
  LET parts == SplitChar(fullName, 32)
  IN  IF Len(parts) >= 3
        THEN [last |-> parts[Len(parts)], first |-> parts[1],
              middle |-> Join(SubSeq(parts, 2, Len(parts) - 1), 32)]
      ELSE IF Len(parts) = 2
        THEN [last |-> parts[2], first |-> parts[1], middle |-> <<>>]
      ELSE [last |-> parts[1], first |-> parts[1], middle |-> <<>>]

\* generateSearchKeys with the first_last key guarded by the first name alone.
generateSearchKeysUnguarded(firstName, middleName, lastName) ==
  LET first == transliterateToMarathi(Trim(firstName))
      middle == transliterateToMarathi(Trim(middleName))
      last == transliterateToMarathi(Trim(lastName))
  IN  (IF first # <<>> /\ middle # <<>> /\ last # <<>>
         THEN << last \o <<95>> \o first \o <<95>> \o middle >> ELSE <<>>)
      \o (IF first # <<>> THEN << first \o <<95>> \o last >> ELSE <<>>)
      \o (IF last # <<>> THEN << last >> ELSE <<>>)

\* generateSearchKeys(firstName, middleName, lastName)
generateSearchKeys(firstName, middleName, lastName) ==
  LET first == transliterateToMarathi(Trim(firstName))
      middle == transliterateToMarathi(Trim(middleName))
      last == transliterateToMarathi(Trim(lastName))
  IN  (IF first # <<>> /\ middle # <<>> /\ last # <<>>
         THEN << last \o <<95>> \o first \o <<95>> \o middle >> ELSE <<>>)
      \o (IF first # <<>> /\ last # <<>>
            THEN << first \o <<95>> \o last >> ELSE <<>>)
      \o (IF last # <<>> THEN << last >> ELSE <<>>)

-----------------------------------------------------------------------------
(* Bounds of the model and the data the remote store is drawn from *)

\* Largest number of voter-IDs one index entry lists (25 gives batches 10, 10, 5).
MaxIds == 25

\* Largest number of index entries (index name, key) the remote store holds.
MaxEntries == 2

\* Largest number of remote reads the network rejects during one search.
MaxFailures == 1

\* getVotersByIds: const batchSize = 10
batchSize == 10

\* searchByVoterId: results.slice(0, 10)
maxPartialMatches == 10

\* The n-th voter-ID of the store: "UXM00", "UXM01", ...
VoterIdAt(n) == <<85, 88, 77, 48 + (n \div 10), 48 + (n % 10)>>

\* The first n voter-IDs.
FirstIds(n) == {VoterIdAt(k) : k \in 0..(n - 1)}

\* Lexicographic order of strings: the order in which a snapshot lists its
\* children, hence the order of Object.keys and Object.entries of snapshot.val().
RECURSIVE StrLess(_, _)
StrLess(a, b) ==
  IF Len(a) = 0 THEN Len(b) > 0
  ELSE IF Len(b) = 0 THEN FALSE
  ELSE IF a[1] # b[1] THEN a[1] < b[1]
  ELSE StrLess(Tail(a), Tail(b))

\* Object.keys(val) of a map whose keys are the strings of S.
RECURSIVE ObjectKeys(_)
ObjectKeys(S) ==
  IF S = {} THEN <<>>
  ELSE LET k == CHOOSE x \in S : \A y \in S \ {x} : StrLess(x, y)
       IN  <<k>> \o ObjectKeys(S \ {k})

\* The three secondary indexes, in the order of searchHierarchy.
searchHierarchy == <<"name_index", "name_index_first_last", "name_index_last">>

\* Full names of the stored records, of three, two and one token (the tokens
\* U+0930 U+093E, U+0926 U+093E and U+092A U+093E).
RecordNames ==
  << <<2352, 2366, 32, 2342, 2366, 32, 2346, 2366>>,
     <<2352, 2366, 32, 2346, 2366>>,
     <<2352, 2366>> >>

\* voters: the first n records without those of `missing`; a record of `nameless`
\* has no name field.
VoterStore(n, missing, nameless) ==
  [id \in FirstIds(n) \ missing |->
     IF id \in nameless THEN [serial_number |-> id[5] - 47]
     ELSE [name |-> RecordNames[(id[5] % 3) + 1], serial_number |-> id[5] - 47]]

\* A store of MaxIds records of which two are missing and two have no name.
InconsistentStore ==
  VoterStore(MaxIds, {VoterIdAt(3), VoterIdAt(10)}, {VoterIdAt(5), VoterIdAt(12)})

\* The keys the stored index entries use: last_first_middle, first_last and last
\* of the name (ram, das, patil) as the transliteration writes it.
IndexKeys ==
  { <<2346, 2366, 2335, 2368, 2354, 95, 2352, 2366, 2350, 95, 2342, 2309, 2360>>,
    <<2352, 2366, 2350, 95, 2346, 2366, 2335, 2368, 2354>>,
    <<2346, 2366, 2335, 2368, 2354>> }

\* The paths an index entry can be stored at.
IndexCells == {<<searchHierarchy[t], k>> : t \in 1..3, k \in IndexKeys}

\* The index stores with at most MaxEntries entries, each listing one or two of
\* the first two voter-IDs.
SmallIndexStores ==
  UNION { [cells -> (SUBSET FirstIds(2)) \ {{}}] :
            cells \in {c \in SUBSET IndexCells : Cardinality(c) <= MaxEntries} }

\* An index store with one entry: name_index_last/<last> lists the first n IDs.
LastNameIndex(n) ==
  (<<"name_index_last", <<2346, 2366, 2335, 2368, 2354>>>> :> FirstIds(n))

\* An index store with one entry: name_index/<last_first_middle> lists the first
\* n IDs.
FullNameIndex(n) ==
  (<<"name_index",
     <<2346, 2366, 2335, 2368, 2354, 95, 2352, 2366, 2350, 95, 2342, 2309, 2360>>>>
       :> FirstIds(n))

\* Form fields: empty or filled.
FirstNames == {<<>>, <<114, 97, 109>>}            \* "", "ram"
MiddleNames == {<<>>, <<100, 97, 115>>}           \* "", "das"
LastNames == {<<>>, <<32>>, <<112, 97, 116, 105, 108>>}   \* "", " ", "patil"

\* Voter-ID inputs: "uxm01", " Uxm11 ", "UXM", "xm0", "M1", "M2", "ZZ", " ".
VoterIdInputs ==
  { <<117, 120, 109, 48, 49>>, <<32, 85, 120, 109, 49, 49, 32>>, <<85, 88, 77>>,
    <<120, 109, 48>>, <<77, 49>>, <<77, 50>>, <<90, 90>>, <<32>> }

\* Sizes of ID lists that fill batches exactly, or exceed them by one.
BatchEdges == {batchSize, batchSize + 1, 2 * batchSize, 2 * batchSize + 1}

\* The form as useState initialises it, and a form with the three name fields.
EmptyForm == [firstName |-> <<>>, middleName |-> <<>>, lastName |-> <<>>, voterId |-> <<>>]

FullName ==
  [firstName |-> <<114, 97, 109>>, middleName |-> <<100, 97, 115>>,
   lastName |-> <<112, 97, 116, 105, 108>>, voterId |-> <<>>]

-----------------------------------------------------------------------------
(* The remote store *)

\* The index store of the specification's example: name_index lists UXM00 under
\* the full-name key, name_index_last lists UXM00 and UXM01 under the last name.
ExampleIndex == FullNameIndex(1) @@ LastNameIndex(2)

\* snapshot.exists() of get(ref(db, `${store}/${key}`)). The path `voters/` of an
\* empty id is the path `voters`: the whole node.
Exists(store, key) ==
  IF store = "voters"
    THEN IF key = <<>> THEN DOMAIN voters # {} ELSE key \in DOMAIN voters
    ELSE <<store, key>> \in DOMAIN index

-----------------------------------------------------------------------------
(* components/Dashboard.tsx: record processing *)

\* Whether processVoterData(id, voterData) throws: parseMarathiName calls
\* fullName.split on voterData.name, a TypeError when the record has no name.
ProcessThrows(voterData) == "name" \notin DOMAIN voterData

\* processVoterData(id, voterData). The reference string, a concatenation of the
\* locality fields for display, is left out.
processVoterData(id, voterData) ==
  [name |-> voterData.name, serial_number |-> voterData.serial_number,
   name_parts |-> parseMarathiName(voterData.name), full_name |-> voterData.name]

\* The SearchResult { id, data: processVoterData(id, voterData) }
SearchResult(id, voterData) == [id |-> id, data |-> processVoterData(id, voterData)]

\* The value a promise of the batch resolves to when there is no result.
Null == [null |-> TRUE]

\* A promise of the batch that has not settled.
Unsettled == [unsettled |-> TRUE]

-----------------------------------------------------------------------------
(* Initial states: one performSearch invocation about to start *)

\* No transliterateToMarathi call is under way.
InitNoCall ==
  /\ value = <<>>
  /\ transliterated = <<>>
  /\ variation = <<>>

\* The Dashboard component with the search box as useState initialises it.
InitUi ==
  /\ searchQuery = <<>>
  /\ timeoutId = <<>>
  /\ calls = <<>>
  /\ searchResults = <<>>
  /\ searchPerformed = FALSE
  /\ isLoading = FALSE
  /\ transliterationInfo = <<>>

\* No search has run: the totals of searchStats are zero.
NoStats == [totalFound |-> 0, timeTaken |-> 0, searchMethod |-> <<>>]

\* No hint is shown under the name fields.
NoHints == [firstName |-> <<>>, middleName |-> <<>>, lastName |-> <<>>]

\* The Dashboard component with the search form as useState initialises it.
InitFormState ==
  /\ activeTab = "epic"
  /\ transliterationHints = NoHints
  /\ searchType = <<>>
  /\ searchStats = NoStats
  /\ searchForm = <<>>
  /\ alerts = 0

InitAside == InitNoCall /\ InitUi /\ InitFormState

\* The locals of the functions before performSearch is called.
InitLocals ==
  /\ searchKeys = <<>>
  /\ probe = <<0, 0>>
  /\ voterIds = <<>>
  /\ fetchIds = <<>>
  /\ batchStart = 0
  /\ batchResults = <<>>
  /\ results = <<>>
  /\ normId = <<>>
  /\ rv = <<>>
  /\ requests = <<>>
  /\ batches = <<>>

\* Every combination of name fields against the example store.
InitNameForms ==
  /\ formData \in [firstName : FirstNames, middleName : MiddleNames,
                   lastName : LastNames, voterId : {<<>>}]
  /\ index = ExampleIndex
  /\ voters = VoterStore(2, {}, {})
  /\ rejectable = MaxFailures

\* A full name against every small index store.
InitIndexStores ==
  /\ formData = FullName
  /\ index \in SmallIndexStores
  /\ voters = VoterStore(2, {}, {})
  /\ rejectable = MaxFailures

\* Index entries that list IDs whose record is missing or has no name.
InitInconsistent ==
  /\ formData = FullName
  /\ index = ExampleIndex
  /\ voters \in {VoterStore(2, {VoterIdAt(1)}, {}), VoterStore(2, {}, {VoterIdAt(0)}),
                 VoterStore(0, {}, {})}
  /\ rejectable = MaxFailures

\* A full name that resolves to as many IDs as fill one or two batches, or
\* one more, on a network that rejects nothing.
InitBatchEdges ==
  /\ formData = FullName
  /\ \E n \in BatchEdges : index = FullNameIndex(n)
  /\ voters = VoterStore(MaxIds, {}, {})
  /\ rejectable = 0

\* A full name that resolves to MaxIds IDs, some without record or without name.
InitManyIds ==
  /\ formData = FullName
  /\ index = FullNameIndex(MaxIds)
  /\ voters = InconsistentStore
  /\ rejectable = 0

\* A full name that resolves to one ID more than a batch holds, on a network
\* that rejects reads.
InitRejectedReads ==
  /\ formData = FullName
  /\ index = FullNameIndex(batchSize + 1)
  /\ voters = InconsistentStore
  /\ rejectable = MaxFailures

\* Voter-ID searches, with and without name fields, against stores of every size.
InitVoterId ==
  /\ \E id \in VoterIdInputs, f \in {EmptyForm, FullName} :
       formData = [f EXCEPT !.voterId = id]
  /\ index = ExampleIndex
  /\ \E n \in 0..MaxIds, nameless \in {{}, {VoterIdAt(0)}, {VoterIdAt(11)}} :
       voters = VoterStore(n, {}, nameless)
  /\ rejectable = MaxFailures

Init ==
  /\ pc = "idle"
  /\ InitLocals
  /\ InitAside
  /\ \/ InitNameForms
     \/ InitIndexStores
     \/ InitInconsistent
     \/ InitBatchEdges
     \/ InitManyIds
     \/ InitRejectedReads
     \/ InitVoterId

-----------------------------------------------------------------------------
(* components/Dashboard.tsx: the search, one action per step between awaits *)

\* The elements of an array.
Range(s) == {s[k] : k \in 1..Len(s)}

\* Array.prototype.slice(from, to) with 0 <= from <= to
Slice(s, from, to) ==
  SubSeq(s, from + 1, IF to < Len(s) THEN to ELSE Len(s))

\* AddAll on an array instead of a Set: an ID listed twice is kept twice.
AddAllRepeating(set, keys) == set \o keys

\* keys.forEach(id => voterIds.add(id)) on a Set kept in insertion order
RECURSIVE AddAll(_, _)
AddAll(set, keys) ==
  IF keys = <<>> THEN set
  ELSE AddAll(IF Head(keys) \in Range(set) THEN set ELSE Append(set, Head(keys)),
              Tail(keys))

\* get(ref(db, `${store}/${key}`)) is issued; pos is the place of the ID in the
\* list getVotersByIds was given (0 for the other reads).
Request(store, key, pos) ==
  [store |-> store, key |-> key, pos |-> pos, status |-> "pending"]

Pending == {r \in 1..Len(requests) : requests[r].status = "pending"}

\* How a read ends: rejected, or resolved with a snapshot that exists or not.
Settled(req, ok) ==
  IF ~ok THEN "error" ELSE IF Exists(req.store, req.key) THEN "found" ELSE "absent"

\* A read resolves, or is rejected when the network still rejects reads.
MayEnd(ok) == ok \/ rejectable > 0

\* BatchAt with a slice that ends one element late.
BatchAtOneMore(ids, i) == Slice(ids, i, i + batchSize + 1)

\* getVotersByIds: const batch = voterIds.slice(i, i + batchSize)
BatchAt(ids, i) == Slice(ids, i, i + batchSize)

\* getVotersByIds: the head of the for loop at i, after `res` was collected.
\* Slices the batch and starts all its reads (batch.map runs each callback up
\* to its await), or returns the results to performSearch, which returns them.
BatchLoop(ids, i, res, reqs) ==
  /\ fetchIds' = ids
  /\ results' = res
  /\ batchStart' = i
  /\ IF i < Len(ids)
       THEN LET batch == BatchAt(ids, i)
            IN  /\ batches' = Append(batches, batch)
                /\ batchResults' = [k \in 1..Len(batch) |-> Unsettled]
                /\ requests' = reqs \o [k \in 1..Len(batch) |->
                                          Request("voters", batch[k], i + k - 1)]
                /\ pc' = "fetch"
                /\ rv' = rv
       ELSE /\ rv' = res
            /\ pc' = "done"
            /\ requests' = reqs
            /\ UNCHANGED <<batches, batchResults>>

\* performSearch after searchByNameInIndex returned ids: nothing found, or
\* getVotersByIds(ids).
FetchOrReturn(ids, reqs) ==
  IF Len(ids) = 0
    THEN /\ rv' = <<>>
         /\ pc' = "done"
         /\ requests' = reqs
         /\ UNCHANGED <<fetchIds, batchStart, batchResults, results, batches>>
    ELSE BatchLoop(ids, 0, <<>>, reqs)

\* Route with the name fields tested before the voter ID.
RouteNameFirst(fd) ==
  IF fd.firstName = <<>> /\ fd.middleName = <<>> /\ fd.lastName = <<>>
     /\ fd.voterId = <<>>
    THEN "none"
  ELSE IF fd.firstName # <<>> \/ fd.middleName # <<>> \/ fd.lastName # <<>>
    THEN "name"
  ELSE "voterId"

\* performSearch: which resolution the form is routed to.
Route(fd) ==
  IF fd.firstName = <<>> /\ fd.middleName = <<>> /\ fd.lastName = <<>>
     /\ fd.voterId = <<>>
    THEN "none"
  ELSE IF fd.voterId # <<>> THEN "voterId"
  ELSE "name"

\* performSearch(formData) up to its first await, as its caller runs it.
CallPerformSearch ==
  /\ UNCHANGED <<formData, voters, index, rejectable>>
  /\ IF Route(formData) = "none"
       THEN /\ rv' = <<>>
            /\ pc' = "done"
            /\ UNCHANGED <<searchKeys, probe, voterIds, fetchIds, batchStart,
                           batchResults, results, normId, requests, batches>>
     ELSE IF Route(formData) = "voterId"
       THEN \* searchByVoterId(voterId.trim().toUpperCase()): the exact lookup
            LET id == ToUpperCase(Trim(formData.voterId))
            IN  /\ normId' = id
                /\ requests' = Append(requests, Request("voters", id, 0))
                /\ pc' = "exact"
                /\ UNCHANGED <<searchKeys, probe, voterIds, fetchIds, batchStart,
                               batchResults, results, rv, batches>>
     ELSE \* searchByNameInIndex(firstName, middleName, lastName): the first probe
          LET keys == generateSearchKeys(formData.firstName, formData.middleName,
                                         formData.lastName)
          IN  /\ searchKeys' = keys
              /\ voterIds' = <<>>
              /\ normId' = normId
              /\ IF Len(keys) = 0
                   THEN /\ probe' = probe
                        /\ FetchOrReturn(<<>>, requests)
                   ELSE /\ probe' = <<1, 1>>
                        /\ requests' = Append(requests,
                                              Request(searchHierarchy[1], keys[1], 0))
                        /\ pc' = "probe"
                        /\ UNCHANGED <<fetchIds, batchStart, batchResults, results,
                                       rv, batches>>

\* One performSearch(formData) call on its own.
PerformSearch ==
  /\ pc = "idle"
  /\ UNCHANGED <<textVars, uiVars, formVars>>
  /\ CallPerformSearch

\* ReturnsEarly with the early return tested on the last tier.
ReturnsEarlyWrongTier(store, ids) == store = "name_index_last" /\ Len(ids) > 0

\* ReturnsEarly with the early return on a hit in any tier.
ReturnsEarlyAnyTier(store, ids) == Len(ids) > 0

\* searchByNameInIndex: whether the probe that found `ids` so far ends the
\* resolution (the return inside the loops).
ReturnsEarly(store, ids) == store = "name_index" /\ Len(ids) > 0

\* ResolutionEnds with the rejected probe leaving the loops.
ResolutionEndsOnError(status, store, ids) ==
  status = "error" \/ (status = "found" /\ store = "name_index" /\ Len(ids) > 0)

\* ResolutionEnds without the return inside the loops.
ResolutionRunsOn(status, store, ids) == FALSE

\* searchByNameInIndex: whether the function returns from inside the loops once
\* a probe settled. A rejected probe is caught inside the loops and only logged.
ResolutionEnds(status, store, ids) == status = "found" /\ ReturnsEarly(store, ids)

\* NextProbe with the loops exchanged: every tier for one key, then the next key.
NextProbeKeyMajor(p, keys) ==
  IF p[1] < Len(searchHierarchy) THEN <<p[1] + 1, p[2]>>
  ELSE IF p[2] < Len(keys) THEN <<1, p[2] + 1>>
  ELSE <<Len(searchHierarchy) + 1, 1>>

\* searchByNameInIndex: the <<tier, key>> position after p in the two for loops,
\* the loop over searchKeys inside the loop over searchHierarchy.
NextProbe(p, keys) ==
  IF p[2] < Len(keys) THEN <<p[1], p[2] + 1>> ELSE <<p[1] + 1, 1>>

\* searchByNameInIndex: the awaited probe settles; the loop body runs and the
\* next probe is issued, or the resolution returns.
ProbeSettles(ok) ==
  /\ pc = "probe"
  /\ UNCHANGED <<textVars, uiVars, formVars>>
  /\ MayEnd(ok)
  /\ LET r == Len(requests)
         req == requests[r]
         status == Settled(req, ok)
         reqs == [requests EXCEPT ![r].status = status]
         ids == IF status = "found"
                  THEN AddAll(voterIds, ObjectKeys(index[<<req.store, req.key>>]))
                  ELSE voterIds
         next == NextProbe(probe, searchKeys)
     IN  /\ rejectable' = IF ok THEN rejectable ELSE rejectable - 1
         /\ voterIds' = ids
         /\ UNCHANGED <<formData, voters, index, searchKeys, normId>>
         /\ IF ResolutionEnds(status, req.store, ids)
               \/ next[1] > Len(searchHierarchy)
              THEN /\ probe' = probe
                   /\ FetchOrReturn(ids, reqs)
              ELSE /\ probe' = next
                   /\ requests' = Append(reqs, Request(searchHierarchy[next[1]],
                                                       searchKeys[next[2]], 0))
                   /\ pc' = "probe"
                   /\ UNCHANGED <<fetchIds, batchStart, batchResults, results, rv,
                                  batches>>

\* getVotersByIds: what the callback of batch.map resolves to once its read ended.
\* A rejected read and a throwing processVoterData are caught and logged.
ReadResult(req, status) ==
  IF status = "found" /\ ~ProcessThrows(voters[req.key])
    THEN SearchResult(req.key, voters[req.key])
    ELSE Null

\* getVotersByIds: one read of the batch settles.
ReadSettles(r, ok) ==
  /\ pc = "fetch"
  /\ UNCHANGED <<textVars, uiVars, formVars>>
  /\ r \in Pending
  /\ MayEnd(ok)
  /\ LET req == requests[r]
         status == Settled(req, ok)
     IN  /\ requests' = [requests EXCEPT ![r].status = status]
         /\ batchResults' = [batchResults EXCEPT ![req.pos - batchStart + 1] =
                               ReadResult(req, status)]
         /\ rejectable' = IF ok THEN rejectable ELSE rejectable - 1
  /\ UNCHANGED <<formData, voters, index, pc, searchKeys, probe, voterIds, fetchIds,
                 batchStart, results, normId, rv, batches>>

\* AllSettled that does not wait for the last read of the batch.
AllSettledButOne == Cardinality(Pending) <= 1

\* await Promise.all(promises) resumes once every promise of the batch settled.
AllSettled == Pending = {}

\* NotNull that lets the null of a failed callback through.
KeepsNull(x) == TRUE

\* getVotersByIds: if (result) results.push(result)
NotNull(x) == x # Null

\* getVotersByIds: Promise.all resolved; the results of the batch are pushed in
\* the order of the batch and the loop goes on.
BatchDone ==
  /\ pc = "fetch"
  /\ UNCHANGED <<textVars, uiVars, formVars>>
  /\ AllSettled
  /\ BatchLoop(fetchIds, batchStart + batchSize,
               results \o SelectSeq(batchResults, NotNull), requests)
  /\ UNCHANGED <<formData, voters, index, searchKeys, probe, voterIds, normId,
                 rejectable>>

\* searchByVoterId: id.toLowerCase().includes(searchLower)
IdMatches(id, query) == Includes(ToLowerCase(id), ToLowerCase(query))

\* searchByVoterId: the IDs the forEach over Object.entries(voters) pushes.
RECURSIVE Filter(_, _)
Filter(ids, query) ==
  IF ids = <<>> THEN <<>>
  ELSE (IF IdMatches(Head(ids), query) THEN <<Head(ids)>> ELSE <<>>)
       \o Filter(Tail(ids), query)

\* searchByVoterId: what the partial-match scan returns. processVoterData
\* throwing inside the forEach leaves the function through its catch: [].
PartialMatches(query) ==
  LET ids == Filter(ObjectKeys(DOMAIN voters), query)
  IN  IF \E k \in 1..Len(ids) : ProcessThrows(voters[ids[k]]) THEN <<>>
      ELSE Slice([k \in 1..Len(ids) |-> SearchResult(ids[k], voters[ids[k]])],
                 0, maxPartialMatches)

\* searchByVoterId: what it returns when the exact lookup found a snapshot. The
\* snapshot of an empty id is the whole node `voters`, a map of records: its
\* .name is undefined or a record, never a string, so processVoterData throws
\* and the function is left through its catch.
ExactMatch(id) ==
  IF id = <<>> \/ ProcessThrows(voters[id]) THEN <<>>
  ELSE <<SearchResult(id, voters[id])>>

\* searchByVoterId: the exact lookup settles.
ExactSettles(ok) ==
  /\ pc = "exact"
  /\ UNCHANGED <<textVars, uiVars, formVars>>
  /\ MayEnd(ok)
  /\ LET r == Len(requests)
         status == Settled(requests[r], ok)
         reqs == [requests EXCEPT ![r].status = status]
     IN  /\ rejectable' = IF ok THEN rejectable ELSE rejectable - 1
         /\ IF status = "absent"
              THEN /\ requests' = Append(reqs, Request("voters", <<>>, 0))
                   /\ pc' = "scan"
                   /\ rv' = rv
              ELSE /\ requests' = reqs
                   /\ pc' = "done"
                   /\ rv' = IF status = "found" THEN ExactMatch(normId) ELSE <<>>
  /\ UNCHANGED <<formData, voters, index, searchKeys, probe, voterIds, fetchIds,
                 batchStart, batchResults, results, normId, batches>>

\* searchByVoterId: the read of the whole node `voters` settles.
ScanSettles(ok) ==
  /\ pc = "scan"
  /\ UNCHANGED <<textVars, uiVars, formVars>>
  /\ MayEnd(ok)
  /\ LET r == Len(requests)
         status == Settled(requests[r], ok)
     IN  /\ requests' = [requests EXCEPT ![r].status = status]
         /\ rejectable' = IF ok THEN rejectable ELSE rejectable - 1
         /\ rv' = IF status = "found" THEN PartialMatches(normId) ELSE <<>>
  /\ pc' = "done"
  /\ UNCHANGED <<formData, voters, index, searchKeys, probe, voterIds, fetchIds,
                 batchStart, batchResults, results, normId, batches>>

Next ==
  \/ PerformSearch
  \/ \E ok \in BOOLEAN : ProbeSettles(ok)
  \/ \E r \in 1..Len(requests), ok \in BOOLEAN : ReadSettles(r, ok)
  \/ BatchDone
  \/ \E ok \in BOOLEAN : ExactSettles(ok)
  \/ \E ok \in BOOLEAN : ScanSettles(ok)

Spec == Init /\ [][Next]_vars

-----------------------------------------------------------------------------
(* generateSearchKeys on its own: the keys of every combination of fields *)

\* Field values: "", " ", "Ram ", "patil", U+0926 U+093E U+0938 (Devanagari) and
\* "tri" (no dictionary word).
KeyFields ==
  { <<>>, <<32>>, <<82, 97, 109, 32>>, <<112, 97, 116, 105, 108>>,
    <<2342, 2366, 2360>>, <<116, 114, 105>> }

\* generateSearchKeys is about to be called on any three field values.
InitKeys ==
  /\ pc = "keys"
  /\ InitLocals
  /\ InitAside
  /\ formData \in [firstName : KeyFields, middleName : KeyFields,
                   lastName : KeyFields, voterId : {<<>>}]
  /\ index = ExampleIndex
  /\ voters = VoterStore(2, {}, {})
  /\ rejectable = 0

\* const searchKeys = generateSearchKeys(firstName, middleName, lastName)
GenerateKeys ==
  /\ pc = "keys"
  /\ UNCHANGED <<textVars, uiVars, formVars>>
  /\ searchKeys' = generateSearchKeys(formData.firstName, formData.middleName,
                                      formData.lastName)
  /\ pc' = "keysDone"
  /\ UNCHANGED <<formData, voters, index, probe, voterIds, fetchIds, batchStart,
                 batchResults, results, normId, rv, requests, batches, rejectable>>

SpecKeys == InitKeys /\ [][GenerateKeys]_vars

-----------------------------------------------------------------------------
(* transliterateToMarathi on its own *)

\* Longest string of the alphabet below handed to transliterateToMarathi.
MaxLen == 3

\* 't', 'r', 'a' (keys of the table, "tr" a key of two letters), the blank, 'x'
\* (no key), 'K' (upper case) and U+0930 (Devanagari).
Alphabet == {116, 114, 97, 32, 120, 75, 2352}

\* Longer inputs: dictionary words, words of several tokens, names of inherited
\* properties, keys of three letters, native script with and without blanks.
NamedTexts ==
  {
    <<66, 97, 100, 97, 108, 101>>,  \* "Badale"
    <<98, 97, 100, 97, 108, 101, 32, 116, 114, 105>>,  \* "badale tri"
    <<116, 114, 105, 32, 98, 97, 100, 97, 108, 101>>,  \* "tri badale"
    <<32, 82, 97, 109, 32, 32, 68, 65, 83, 32>>,  \* " Ram  DAS "
    <<99, 111, 110, 115, 116, 114, 117, 99, 116, 111, 114>>,  \* "constructor"
    <<95, 95, 112, 114, 111, 116, 111, 95, 95>>,  \* "__proto__"
    <<107, 115, 104>>,  \* "ksh"
    <<99, 104, 104>>,  \* "chh"
    <<108, 97, 120, 109, 105>>,  \* "laxmi"
    <<98, 104, 97, 114, 97, 116>>,  \* "bharat"
    <<103, 121, 32, 120, 97>>,  \* "gy xa"
    <<2352, 2366, 2350, 32, 32, 2342, 2366, 2360>>,  \* U+0930 U+093E U+092E, two blanks, U+0926 U+093E U+0938
    <<2352, 2366, 2350, 100, 97, 115>>,  \* U+0930 U+093E U+092E "das"
    <<32, 2352, 2366, 2350, 32>> }  \* U+0930 U+093E U+092E between blanks

TextInputs == NamedTexts \cup UNION {[1..n -> Alphabet] : n \in 0..MaxLen}

\* transliterateToMarathi is about to be called on any of the inputs.
InitText ==
  /\ pc = "text"
  /\ InitLocals
  /\ InitUi
  /\ InitFormState
  /\ formData = EmptyForm
  /\ index = ExampleIndex
  /\ voters = VoterStore(2, {}, {})
  /\ rejectable = 0
  /\ value \in TextInputs
  /\ transliterated = <<>>
  /\ variation = <<>>

\* const transliterated = transliterateToMarathi(value)
Transliterate ==
  /\ pc = "text"
  /\ transliterated' = transliterateToMarathi(value)
  /\ pc' = "textDone"
  /\ UNCHANGED <<formData, voters, index, searchKeys, probe, voterIds, fetchIds,
                 batchStart, batchResults, results, normId, rv, requests, batches,
                 rejectable, value, variation, uiVars, formVars>>

\* const transliterated = transliterateToMarathi(text) with the function of the
\* module written in TypeScript
TransliterateVariant ==
  /\ pc = "text"
  /\ variation' = transliterateToMarathiVariant(value)
  /\ pc' = "variantDone"
  /\ UNCHANGED <<formData, voters, index, searchKeys, probe, voterIds, fetchIds,
                 batchStart, batchResults, results, normId, rv, requests, batches,
                 rejectable, value, transliterated, uiVars, formVars>>

\* One call of either transliteration function on one input.
NextText == Transliterate \/ TransliterateVariant

\* Either transliteration function applied to every input.
SpecText == InitText /\ [][NextText]_vars

-----------------------------------------------------------------------------
(* Properties *)

\* The probes of the three indexes issued so far.
IndexProbes == {r \in 1..Len(requests) : requests[r].store # "voters"}

\* The probes that found a membership map in the given index.
FoundIn(store) ==
  {r \in IndexProbes : requests[r].store = store /\ requests[r].status = "found"}

\* The membership map request r read.
MapOf(r) == index[<<requests[r].store, requests[r].key>>]

\* searchByNameInIndex has returned: its result is voterIds.
NameResolved == Route(formData) = "name" /\ pc \in {"fetch", "done"}

\* No element occurs twice in the sequence.
NoDuplicates(seq) == Cardinality(Range(seq)) = Len(seq)

\* C1: when a probe of name_index finds a membership map, name resolution
\* returns exactly the voter-IDs of that map, and none that is listed only
\* under name_index_first_last or name_index_last.
C1_FirstTierHitIsTheResult ==
  NameResolved =>
    \A r \in FoundIn("name_index") :
      /\ Range(voterIds) = MapOf(r)
      /\ NoDuplicates(voterIds)

\* C1, the specification's example: the full name is listed under name_index
\* as {UXM00} and under name_index_last as {UXM00, UXM01}; the result is UXM00.
C1_Witness ==
  /\ NameResolved
  /\ index = ExampleIndex
  /\ FoundIn("name_index") # {}
  /\ voterIds = <<VoterIdAt(0)>>
  /\ VoterIdAt(1) \in index[<<"name_index_last", searchKeys[3]>>]

\* C2: when no probe of name_index finds a membership map, every generated key
\* is probed in name_index_first_last and in name_index_last, and the result is
\* the union, without duplicates, of the maps these probes found; when no read
\* was rejected that is the union of the stored maps of these keys.
C2_UnionOfLaterTiers ==
  (NameResolved /\ FoundIn("name_index") = {}) =>
    /\ \A t \in 2..3, k \in 1..Len(searchKeys) :
         \E r \in IndexProbes : /\ requests[r].store = searchHierarchy[t]
                                /\ requests[r].key = searchKeys[k]
    /\ Range(voterIds) =
         UNION {MapOf(r) : r \in FoundIn("name_index_first_last")
                                   \cup FoundIn("name_index_last")}
    /\ NoDuplicates(voterIds)
    /\ (\A r \in IndexProbes : requests[r].status # "error") =>
         Range(voterIds) =
           UNION {index[c] : c \in {d \in DOMAIN index :
                                      /\ d[1] \in {searchHierarchy[2], searchHierarchy[3]}
                                      /\ d[2] \in Range(searchKeys)}}

\* C2: a hit in name_index_first_last and another in name_index_last, and the
\* result holds the IDs of both.
C2_Witness ==
  /\ NameResolved
  /\ FoundIn("name_index") = {}
  /\ \E r2 \in FoundIn("name_index_first_last"), r3 \in FoundIn("name_index_last") :
       /\ MapOf(r2) # MapOf(r3)
       /\ Range(voterIds) = MapOf(r2) \cup MapOf(r3)
       /\ Len(voterIds) = 2

\* Name resolution as the specification words it, on the index store idx: the
\* map of the first key name_index lists, else the maps of all keys in the two
\* other indexes, in probe order.
RECURSIVE Accumulate(_, _, _)
Accumulate(set, cells, idx) ==
  IF cells = <<>> THEN set
  ELSE Accumulate(IF Head(cells) \in DOMAIN idx
                    THEN AddAll(set, ObjectKeys(idx[Head(cells)])) ELSE set,
                  Tail(cells), idx)

Resolution(keys, idx) ==
  LET hits == {k \in 1..Len(keys) : <<"name_index", keys[k]>> \in DOMAIN idx}
      n == Len(keys)
  IN  IF hits # {}
        THEN ObjectKeys(idx[<<"name_index", keys[CHOOSE k \in hits : \A j \in hits : k <= j]>>])
        ELSE Accumulate(<<>>, [c \in 1..(2 * n) |->
                                 <<searchHierarchy[2 + ((c - 1) \div n)],
                                   keys[((c - 1) % n) + 1]>>], idx)

\* The index entries whose probe was rejected.
RejectedCells ==
  {<<requests[r].store, requests[r].key>> :
     r \in {q \in IndexProbes : requests[q].status = "error"}}

\* C3: a rejected probe counts as no match for that probe only: the next probe
\* of the fixed order is issued after it, and the resolution returns what it
\* returns on a store without the entries whose probe was rejected.
C3_RejectedProbeIsNoMatch ==
  /\ \A r \in IndexProbes :
       (requests[r].status = "error" /\ r < 3 * Len(searchKeys)) =>
         /\ r < Len(requests)
         /\ requests[r + 1].store = searchHierarchy[(r \div Len(searchKeys)) + 1]
         /\ requests[r + 1].key = searchKeys[(r % Len(searchKeys)) + 1]
  /\ NameResolved =>
       voterIds = Resolution(searchKeys,
                             [c \in DOMAIN index \ RejectedCells |-> index[c]])

\* C3: the probe of the entry name_index lists was rejected, and the resolution
\* went on to return the IDs name_index_last lists.
C3_Witness ==
  /\ NameResolved
  /\ index = ExampleIndex
  /\ Len(requests) > 0
  /\ requests[1].status = "error"
  /\ <<requests[1].store, requests[1].key>> \in DOMAIN index
  /\ voterIds = <<VoterIdAt(0), VoterIdAt(1)>>

\* What the voter-ID resolution returns for the normalized id, given how its
\* reads ended: a function of the id, the store and the network alone.
VoterIdOutcome(id) ==
  IF requests[1].status = "error" THEN <<>>
  ELSE IF requests[1].status = "found" THEN ExactMatch(id)
  ELSE IF requests[2].status = "found" THEN PartialMatches(id)
  ELSE <<>>

\* C4: with a voter ID in the form only the voter-ID resolution runs, whatever
\* the name fields hold: no key is generated, no index is probed, no batch is
\* fetched, and the result is that of the voter-ID resolution, also when empty.
C4_VoterIdTakesPriority ==
  formData.voterId # <<>> =>
    /\ IndexProbes = {}
    /\ searchKeys = <<>>
    /\ voterIds = <<>>
    /\ batches = <<>>
    /\ pc \in {"idle", "exact", "scan", "done"}
    /\ pc = "done" => rv = VoterIdOutcome(ToUpperCase(Trim(formData.voterId)))

\* C4: a voter ID that matches nothing, with all name fields filled and the
\* name listed in the index: the search ends empty.
C4_Witness ==
  /\ pc = "done"
  /\ formData.voterId # <<>>
  /\ formData.firstName # <<>> /\ formData.middleName # <<>> /\ formData.lastName # <<>>
  /\ generateSearchKeys(formData.firstName, formData.middleName, formData.lastName)[1]
       \in {c[2] : c \in DOMAIN index}
  /\ \A r \in 1..Len(requests) : requests[r].status # "error"
  /\ rv = <<>>

\* No remote read was rejected.
NoReadRejected == \A r \in 1..Len(requests) : requests[r].status # "error"

\* The voter ID as searchByVoterId receives it.
NormalizedId == ToUpperCase(Trim(formData.voterId))

\* The whole node `voters` was read (the read of the fallback scan).
FullStoreRead == \E r \in 1..Len(requests) : requests[r].key = <<>>

\* The IDs of the results performSearch resolved to, in order.
ResultIds == [k \in 1..Len(rv) |-> rv[k].id]

\* C5: when the normalized voter ID is the key of a stored record, the search
\* returns exactly one result, with that ID, and never reads the whole store
\* (stated for searches none of whose reads is rejected).
C5_ExactMatchIsTheOnlyResult ==
  (Route(formData) = "voterId" /\ NormalizedId \in DOMAIN voters) =>
    /\ ~FullStoreRead
    /\ (pc = "done" /\ NoReadRejected) => ResultIds = <<NormalizedId>>

\* C5 for a stored record that has a name: the search returns exactly one
\* result, with the normalized ID, and never reads the whole store.
C5_ExactMatchOfNamedRecord ==
  ( /\ Route(formData) = "voterId"
    /\ NormalizedId \in DOMAIN voters
    /\ ~ProcessThrows(voters[NormalizedId]) ) =>
    /\ ~FullStoreRead
    /\ (pc = "done" /\ NoReadRejected) => ResultIds = <<NormalizedId>>

\* C5: an input in mixed case with blanks around it found its record.
C5_NamedRecordFound ==
  /\ pc = "done"
  /\ formData.voterId # NormalizedId
  /\ ResultIds = <<NormalizedId>>

\* The stored IDs that contain the query, letter case ignored.
Containing(query) ==
  {id \in DOMAIN voters : Includes(ToLowerCase(id), ToLowerCase(query))}

\* C6: when no record is stored under the normalized voter ID, the search
\* returns only records whose ID contains the query, each once: all of them
\* when at most 10 match, exactly 10 otherwise (stated for a query that is not
\* blank and for searches none of whose reads is rejected).
C6_FallbackReturnsTheMatches ==
  ( /\ Route(formData) = "voterId"
    /\ NormalizedId \notin DOMAIN voters
    /\ NormalizedId # <<>>
    /\ pc = "done"
    /\ NoReadRejected ) =>
    LET matching == Containing(NormalizedId)
    IN  /\ Range(ResultIds) \subseteq matching
        /\ NoDuplicates(ResultIds)
        /\ Len(rv) = IF Cardinality(matching) <= 10 THEN Cardinality(matching) ELSE 10

\* C6 for queries all of whose matching records have a name: the search returns
\* only matching records, all of them up to 10 and exactly 10 beyond.
C6_FallbackOverNamedRecords ==
  ( /\ Route(formData) = "voterId"
    /\ NormalizedId \notin DOMAIN voters
    /\ NormalizedId # <<>>
    /\ \A id \in Containing(NormalizedId) : ~ProcessThrows(voters[id])
    /\ pc = "done"
    /\ NoReadRejected ) =>
    LET matching == Containing(NormalizedId)
    IN  /\ Range(ResultIds) \subseteq matching
        /\ NoDuplicates(ResultIds)
        /\ Len(rv) = IF Cardinality(matching) <= 10 THEN Cardinality(matching) ELSE 10

\* C6: more than 10 stored IDs contain the query and 10 were returned.
C6_MoreThanTenMatch ==
  /\ pc = "done"
  /\ Route(formData) = "voterId"
  /\ Cardinality(Containing(NormalizedId)) > 10
  /\ Len(rv) = 10

\* The reads getVotersByIds issued, in issue order.
IsRecordRead(req) == req.store = "voters"

RecordReads == IF Route(formData) = "name" THEN SelectSeq(requests, IsRecordRead) ELSE <<>>

\* The concatenation of a sequence of sequences.
RECURSIVE Flatten(_)
Flatten(seqs) == IF seqs = <<>> THEN <<>> ELSE Head(seqs) \o Flatten(Tail(seqs))

\* C8: getVotersByIds over n IDs slices the list, in input order, into batches
\* of 10 (the last one may be shorter), reads the records of each batch, and
\* has issued ceil(n / 10) batches when it returns at most n results; 25 IDs
\* give batches of 10, 10 and 5.
C8_BatchesOfTen ==
  LET n == Len(fetchIds)
      flat == Flatten(batches)
  IN  /\ \A b \in 1..Len(batches) :
           /\ Len(batches[b]) \in 1..10
           /\ b < Len(batches) => Len(batches[b]) = 10
      /\ flat = SubSeq(fetchIds, 1, Len(flat))
      /\ [k \in 1..Len(RecordReads) |-> RecordReads[k].key] = flat
      /\ (pc = "done" /\ Route(formData) = "name") =>
           /\ flat = fetchIds
           /\ Len(batches) = (n + 9) \div 10
           /\ Len(rv) <= n
           /\ n = 25 => [b \in 1..Len(batches) |-> Len(batches[b])] = <<10, 10, 5>>

\* C8: 25 IDs were fetched in batches of 10, 10 and 5.
C8_Witness ==
  /\ pc = "done"
  /\ Len(fetchIds) = 25
  /\ Len(batches) = 3
  /\ Len(batches[3]) = 5
  /\ Len(rv) < 25

\* The record reads that have not settled.
OutstandingReads ==
  {r \in Pending : Route(formData) = "name" /\ requests[r].store = "voters"}

\* C9: at most 10 record reads are outstanding at any moment, and while a read
\* of one batch is outstanding no read of a later batch has been issued.
C9_OneBatchInFlight ==
  /\ Cardinality(OutstandingReads) <= 10
  /\ \A r1 \in OutstandingReads, r2 \in 1..Len(requests) :
       requests[r2].pos \div 10 <= requests[r1].pos \div 10

\* C9: the ten reads of the second batch are outstanding.
C9_Witness ==
  /\ Cardinality(OutstandingReads) = 10
  /\ \A r \in OutstandingReads : requests[r].pos \div 10 = 1

\* The IDs whose record read ended with the given status.
ReadIds(status) ==
  {RecordReads[k].key : k \in {j \in 1..Len(RecordReads) : RecordReads[j].status = status}}

\* C10: getVotersByIds returns one entry for each ID whose record was read and
\* none for an ID without record; the IDs without record are just left out.
C10_OnlyMissingRecordsAreDropped ==
  (pc = "done" /\ Route(formData) = "name" /\ fetchIds # <<>>) =>
    /\ Range(ResultIds) = ReadIds("found")
    /\ NoDuplicates(ResultIds)
    /\ Range(ResultIds) \cap ReadIds("absent") = {}

\* C10 for stores all of whose records have a name: one entry for each ID whose
\* record was read, none for an ID without record.
C10_MissingRecordsAreDropped ==
  ( /\ pc = "done" /\ Route(formData) = "name" /\ fetchIds # <<>>
    /\ \A id \in DOMAIN voters : ~ProcessThrows(voters[id]) ) =>
    /\ Range(ResultIds) = ReadIds("found")
    /\ NoDuplicates(ResultIds)
    /\ Range(ResultIds) \cap ReadIds("absent") = {}

\* C10: an ID without record was left out and other IDs were returned.
C10_RecordMissing ==
  /\ pc = "done" /\ Route(formData) = "name"
  /\ \A id \in DOMAIN voters : ~ProcessThrows(voters[id])
  /\ ReadIds("absent") # {}
  /\ rv # <<>>

\* The segments of a key: the parts between underscores.
Segments(key) == SplitChar(key, 95)

\* The field as the key generator sees it.
Canonical(field) == transliterateToMarathi(Trim(field))

-----------------------------------------------------------------------------
(* Error handling *)

\* x is the SearchResult of a stored record.
IsSearchResult(x) ==
  /\ DOMAIN x = {"id", "data"}
  /\ x.id \in DOMAIN voters
  /\ ~ProcessThrows(voters[x.id])
  /\ x = SearchResult(x.id, voters[x.id])

\* The IDs a search of the form can return when nothing fails.
Candidates ==
  IF Route(formData) = "name" THEN Range(fetchIds)
  ELSE IF Route(formData) = "voterId" THEN {NormalizedId} \cup Containing(NormalizedId)
  ELSE {}

\* performSearch waits for nothing but a read that is outstanding, or for the
\* reads of the current batch, so that it goes on however the read ends.
AwaitsARead ==
  /\ pc \in {"probe", "exact", "scan"} =>
       (Len(requests) > 0 /\ Pending = {Len(requests)})
  /\ pc = "fetch" =>
       \A r \in Pending :
         /\ requests[r].store = "voters"
         /\ requests[r].pos \in batchStart..(batchStart + batchSize - 1)

\* C11: performSearch always completes with a sequence of SearchResult, empty
\* or partial, whatever reads are rejected: until it returns it awaits a read
\* whose rejection is handled like its resolution, and what it returns is a
\* sequence of results of stored records, each once, among those the search
\* returns when nothing fails.
C11_AlwaysAResultSequence ==
  /\ pc \in {"idle", "probe", "exact", "scan", "fetch", "done"}
  /\ AwaitsARead
  /\ pc = "done" =>
       /\ \A k \in 1..Len(rv) : IsSearchResult(rv[k])
       /\ NoDuplicates(rv)
       /\ Range(ResultIds) \subseteq Candidates

\* C11: a record read was rejected and the search returned the other records.
C11_Witness ==
  /\ pc = "done"
  /\ \E r \in 1..Len(requests) :
       requests[r].store = "voters" /\ requests[r].status = "error"
  /\ rv # <<>>
  /\ Len(rv) < Len(fetchIds)

\* The stored records that have no name.
NamelessIds == {id \in DOMAIN voters : ProcessThrows(voters[id])}

\* The name parts of a record without name, as the specification has them.
EmptyParts == [last |-> <<>>, first |-> <<>>, middle |-> <<>>]

\* C12: a record without name is tolerated (stated for searches none of whose
\* reads is rejected): a batch returns every record it read, the nameless ones
\* with empty name parts, and the fallback scan returns the first 10 matching
\* records whether or not one of the matching records has no name.
C12_NamelessRecordIsTolerated ==
  (pc = "done" /\ NoReadRejected) =>
    /\ Route(formData) = "name" =>
         \A id \in ReadIds("found") :
           \E k \in 1..Len(rv) :
             /\ rv[k].id = id
             /\ id \in NamelessIds => rv[k].data.name_parts = EmptyParts
    /\ (Route(formData) = "voterId" /\ FullStoreRead /\ NormalizedId # <<>>) =>
         ResultIds = Slice(Filter(ObjectKeys(DOMAIN voters), NormalizedId),
                           0, maxPartialMatches)

\* C12, what the batch does: the records with a name that were read are
\* returned although a record of the same batch has no name.
C12_BatchKeepsTheNamedRecords ==
  (pc = "done" /\ Route(formData) = "name") =>
    Range(ResultIds) = ReadIds("found") \ NamelessIds

\* C12: a batch read a record without name and returned the records with one.
C12_NamelessInBatch ==
  /\ pc = "done" /\ Route(formData) = "name"
  /\ ReadIds("found") \cap NamelessIds # {}
  /\ rv # <<>>

\* C13: when the exact lookup voters/{id} is rejected the search goes on with
\* the fallback scan and returns what the scan finds.
C13_RejectedLookupFallsBack ==
  ( /\ Route(formData) = "voterId"
    /\ pc = "done"
    /\ requests[1].status = "error" ) =>
    /\ FullStoreRead
    /\ requests[Len(requests)].status = "found" => rv = PartialMatches(NormalizedId)

\* C13, what the code does: a rejected exact lookup ends the search with an
\* empty result and the whole store is not read.
C13_RejectedLookupEndsEmpty ==
  ( /\ Route(formData) = "voterId"
    /\ Len(requests) > 0
    /\ requests[1].status = "error" ) =>
    /\ pc = "done"
    /\ rv = <<>>
    /\ Len(requests) = 1

\* C13: the exact lookup was rejected, stored IDs contain the query and all
\* have a name, and the search returned nothing.
C13_MatchesLost ==
  /\ Route(formData) = "voterId"
  /\ pc = "done"
  /\ requests[1].status = "error"
  /\ Containing(NormalizedId) # {}
  /\ NamelessIds = {}
  /\ rv = <<>>

-----------------------------------------------------------------------------
(* Order of the probes *)

\* The probes of the indexes, in the order they were issued.
IsProbe(req) == req.store # "voters"

ProbesIssued == SelectSeq(requests, IsProbe)

\* C20: the probes of name resolution are issued one at a time, a probe only
\* after the previous one has settled, tier by tier in the order name_index,
\* name_index_first_last, name_index_last, and inside a tier key by key in the
\* order generateSearchKeys returned the keys.
C20_ProbesInTierMajorOrder ==
  LET n == Len(searchKeys)
      probes == ProbesIssued
  IN  /\ Len(probes) <= Len(searchHierarchy) * n
      /\ \A k \in 1..Len(probes) :
           /\ probes[k].store = searchHierarchy[((k - 1) \div n) + 1]
           /\ probes[k].key = searchKeys[((k - 1) % n) + 1]
           /\ probes[k].status = "pending" => k = Len(probes)
      /\ searchKeys = IF Route(formData) = "name" /\ pc # "idle"
                        THEN generateSearchKeys(formData.firstName, formData.middleName,
                                                formData.lastName)
                        ELSE <<>>

\* C20: three keys were probed in each of the three indexes, nine probes, the
\* fifth of them rejected.
C20_Witness ==
  /\ Len(searchKeys) = 3
  /\ Len(ProbesIssued) = 9
  /\ ProbesIssued[5].status = "error"
  /\ ProbesIssued[9].status # "pending"

-----------------------------------------------------------------------------
(* Properties of transliterateToMarathi, under SpecText *)

\* The whitespace-separated tokens of a string.
Tokens(str) == IF Trim(str) = <<>> THEN <<>> ELSE SplitWs(Trim(str))

\* The tokens of the input as the function looks them up: lower-cased.
InputTokens == Tokens(ToLowerCase(value))

\* C15: transliterateToMarathi returns a string that contains a Devanagari code
\* unit unchanged, blanks included, also when it holds Latin letters.
C15_IdentityOnNativeScript ==
  (pc = "textDone" /\ containsMarathi(value)) => transliterated = value

\* Only Devanagari code units, in tokens separated by single blanks.
IsPlainNative(str) ==
  /\ \A i \in 1..Len(str) : str[i] \in (2304..2431) \cup {32}
  /\ str = Join(Tokens(str), 32)

\* C15, what the code does: a string of Devanagari tokens separated by single
\* blanks, with no blank around it, is returned unchanged.
C15_IdentityOnPlainNativeText ==
  (pc = "textDone" /\ containsMarathi(value) /\ IsPlainNative(value)) =>
    transliterated = value

\* C15: two Devanagari tokens separated by one blank came back unchanged.
C15_PlainNativeTokens ==
  /\ pc = "textDone"
  /\ value = <<2352, 32, 2352>>
  /\ transliterated = value

\* C16: a token that, lower-cased, is a key of commonNamesMap is written as the
\* value the dictionary gives it, whatever the table would make of its letters:
\* the output is the output for the tokens before it, the dictionary value, and
\* the output for the tokens after it, joined by blanks.
C16_DictionaryFirst ==
  pc = "textDone" =>
    \A k \in 1..Len(InputTokens) :
      InputTokens[k] \in DOMAIN commonNamesMap =>
        LET before == transliterateToMarathi(Join(SubSeq(InputTokens, 1, k - 1), 32))
            after == transliterateToMarathi(
                       Join(SubSeq(InputTokens, k + 1, Len(InputTokens)), 32))
        IN  transliterated =
              Join(SelectSeq(<<before, commonNamesMap[InputTokens[k]], after>>,
                             LAMBDA part : part # <<>>), 32)

\* C16: "Badale" was written as the dictionary has it (U+092C U+0927 U+093E
\* U+0932 U+0947), which is not what the table makes of its letters.
C16_Witness ==
  /\ pc = "textDone"
  /\ value = <<66, 97, 100, 97, 108, 101>>
  /\ transliterated = <<2348, 2343, 2366, 2354, 2375>>
  /\ transliterated # TransliterateFrom(<<98, 97, 100, 97, 108, 101>>, 1)

\* What a token can become when each of its characters is consumed by a key of
\* the table, replaced by the key's value, or copied: every way of cutting the
\* token into keys and single characters.
RECURSIVE Renderings(_)
Renderings(word) ==
  IF word = <<>> THEN {<<>>}
  ELSE LET cut(n) ==
             IF n > Len(word) THEN {}
             ELSE LET rest == Renderings(SubSeq(word, n + 1, Len(word)))
                      head == SubSeq(word, 1, n)
                  IN  (IF head \in DOMAIN englishToDevanagariMap
                         THEN {englishToDevanagariMap[head] \o r : r \in rest} ELSE {})
                      \cup (IF n = 1 THEN {head \o r : r \in rest} ELSE {})
       IN  cut(1) \cup cut(2) \cup cut(3)

IsAscii(str) == \A i \in 1..Len(str) : str[i] < 128

\* C17: for an ASCII input none of whose tokens is a key of the dictionary the
\* output has as many tokens as the input, in the same order, and each output
\* token is its input token (lower-cased) with every character consumed by a
\* key of the table or copied in place.
C17_TokensPreserved ==
  ( /\ pc = "textDone"
    /\ IsAscii(value)
    /\ \A k \in 1..Len(InputTokens) : InputTokens[k] \notin DOMAIN commonNamesMap ) =>
    LET out == Tokens(transliterated)
    IN  /\ Len(out) = Len(InputTokens)
        /\ \A k \in 1..Len(out) : out[k] \in Renderings(InputTokens[k])

\* C17, what the code does: the same for inputs none of whose tokens is the
\* name of a property commonNamesMap inherits.
C17_TokensPreservedButInherited ==
  ( /\ pc = "textDone"
    /\ IsAscii(value)
    /\ \A k \in 1..Len(InputTokens) :
         InputTokens[k] \notin DOMAIN commonNamesMap \cup DOMAIN inheritedProperties ) =>
    LET out == Tokens(transliterated)
    IN  /\ Len(out) = Len(InputTokens)
        /\ \A k \in 1..Len(out) : out[k] \in Renderings(InputTokens[k])

\* C17: "gy xa" became two tokens, the 'x' of the second copied in place.
C17_UnmappedCopied ==
  /\ pc = "textDone"
  /\ value = <<103, 121, 32, 120, 97>>
  /\ Len(Tokens(transliterated)) = 2
  /\ Tokens(transliterated)[2][1] = 120

Collapsed(str) == Join(Tokens(str), 32)

-----------------------------------------------------------------------------
(* parseMarathiName: the name parts of a record found by its voter ID *)

\* Longest full name of the stored record.
MaxNameLen == 4

\* U+0930, U+0926 and the blank.
NameAlphabet == {2352, 2342, 32}

\* The full names: every string of the alphabet, the empty one included.
FullNames == UNION {[1..n -> NameAlphabet] : n \in 0..MaxNameLen}

\* A search for the voter ID "UXM00" whose record has any of the full names.
InitParse ==
  /\ pc = "idle"
  /\ InitLocals
  /\ InitAside
  /\ formData = [EmptyForm EXCEPT !.voterId = VoterIdAt(0)]
  /\ index = ExampleIndex
  /\ \E name \in FullNames :
       voters = (VoterIdAt(0) :> [name |-> name, serial_number |-> 1])
  /\ rejectable = 0

\* performSearch on the voter-ID route: the exact lookup and its result.
NextParse ==
  \/ PerformSearch
  \/ \E ok \in BOOLEAN : ExactSettles(ok)

SpecParse == InitParse /\ [][NextParse]_vars

\* The strings of a sequence that are not empty.
NonEmpty(parts) == SelectSeq(parts, LAMBDA part : part # <<>>)

\* The name parts against the tokens of the full name, the pieces between its
\* blanks: the positional rule for 3 or more, 2 and 1 tokens.
PartsByPosition(parts, tokens) ==
  LET n == Len(tokens)
  IN  /\ n >= 3 => /\ parts.first = tokens[1]
                   /\ parts.last = tokens[n]
                   /\ parts.middle = Join(SubSeq(tokens, 2, n - 1), 32)
      /\ n = 2 => /\ parts.first = tokens[1]
                  /\ parts.last = tokens[2]
                  /\ parts.middle = <<>>
      /\ n = 1 => /\ parts.first = tokens[1]
                  /\ parts.last = tokens[1]
                  /\ parts.middle = <<>>

-----------------------------------------------------------------------------
(* components/Dashboard.tsx, the variant with one search box: the search runs
   from an effect on searchQuery, 500 ms after the last change *)

\* Largest number of searches issued from the search box.
MaxCalls == 2

\* searchVotersInFirebase: uniqueResults.slice(0, 50)
maxResults == 50

\* Texts typed into the search box: "", " ", "1", "00" and "ram".
Queries == {<<>>, <<32>>, <<49>>, <<48, 48>>, <<114, 97, 109>>}

\* The records of this variant carry their name as full_name; the records here
\* have neither search_tokens nor name_parts, for which the code substitutes
\* empty values that no query matches. UXM00 is U+0930 U+093E U+092E, UXM01 is
\* U+0926 U+093E U+0938.
NameStore ==
  (VoterIdAt(0) :> [full_name |-> <<2352, 2366, 2350>>])
  @@ (VoterIdAt(1) :> [full_name |-> <<2342, 2366, 2360>>])

\* searchVotersInFirebase: whether the forEach pushes the record, by its ID or
\* by its full name, as typed or transliterated.
VoterMatches(id, voter, searchText) ==
  LET searchLower == ToLowerCase(Trim(searchText))
      isMarathi == containsMarathi(Trim(searchText))
      transliteratedQuery == IF isMarathi THEN Trim(searchText)
                             ELSE transliterateToMarathi(searchLower)
      fullName == IF "full_name" \in DOMAIN voter THEN ToLowerCase(voter.full_name)
                  ELSE <<>>
  IN  \/ Includes(ToLowerCase(id), searchLower)
      \/ Includes(fullName, searchLower)
      \/ (~isMarathi /\ Includes(fullName, transliteratedQuery))

\* searchVotersInFirebase(searchText) once its read of the node `voters` ended:
\* the first 50 matching records, or [] when the read was rejected (its catch)
\* or the node does not exist.
searchVotersInFirebase(searchText, ok) ==
  IF ~ok \/ DOMAIN voters = {} THEN <<>>
  ELSE LET ids == SelectSeq(ObjectKeys(DOMAIN voters),
                            LAMBDA id : VoterMatches(id, voters[id], searchText))
       IN  Slice([k \in 1..Len(ids) |-> [id |-> ids[k], data |-> voters[ids[k]]]],
                 0, maxResults)

\* The component after it mounted: the effect has run for the empty query and
\* its timer is pending.
InitDebounce ==
  /\ pc = "mounted"
  /\ InitLocals
  /\ InitNoCall
  /\ InitFormState
  /\ formData = EmptyForm
  /\ index = ExampleIndex
  /\ voters = NameStore
  /\ rejectable \in 0..MaxFailures
  /\ searchQuery = <<>>
  /\ timeoutId = << <<>> >>
  /\ calls = <<>>
  /\ searchResults = <<>>
  /\ searchPerformed = FALSE
  /\ isLoading = FALSE
  /\ transliterationInfo = <<>>

\* onChange: setSearchQuery(e.target.value) with another text. The effect's
\* cleanup clears the pending timer and the effect sets a new one, whose
\* callback holds the new text.
SetSearchQuery(text) ==
  /\ pc = "mounted"
  /\ text # searchQuery
  /\ Len(calls) < MaxCalls
  /\ searchQuery' = text
  /\ timeoutId' = <<text>>
  /\ UNCHANGED <<formData, voters, index, pc, searchKeys, probe, voterIds, fetchIds,
                 batchStart, batchResults, results, normId, rv, requests, batches,
                 rejectable, textVars, calls, searchResults, searchPerformed,
                 isLoading, transliterationInfo, formVars>>

\* The timer fires: searchVoters runs up to its await. A blank text empties the
\* results; any other starts a search, whatever searches are still under way.
TimerFires ==
  /\ pc = "mounted"
  /\ timeoutId # <<>>
  /\ timeoutId' = <<>>
  /\ IF Trim(timeoutId[1]) = <<>>
       THEN /\ searchResults' = <<>>
            /\ searchPerformed' = FALSE
            /\ transliterationInfo' = <<>>
            /\ UNCHANGED <<calls, isLoading>>
       ELSE /\ isLoading' = TRUE
            /\ calls' = Append(calls, [searchText |-> timeoutId[1], status |-> "pending",
                                       results |-> <<>>])
            /\ UNCHANGED <<searchResults, searchPerformed, transliterationInfo>>
  /\ UNCHANGED <<formData, voters, index, pc, searchKeys, probe, voterIds, fetchIds,
                 batchStart, batchResults, results, normId, rv, requests, batches,
                 rejectable, textVars, searchQuery, formVars>>

\* await searchVotersInFirebase(searchQuery) of call c resumes: the results,
\* searchPerformed and the transliteration of the text of that call are set
\* and, in the finally, isLoading is reset.
CallSettles(c, ok) ==
  /\ pc = "mounted"
  /\ c \in 1..Len(calls)
  /\ calls[c].status = "pending"
  /\ MayEnd(ok)
  /\ LET found == searchVotersInFirebase(calls[c].searchText, ok)
     IN  /\ calls' = [calls EXCEPT ![c].status = "settled", ![c].results = found]
         /\ searchResults' = found
  /\ searchPerformed' = TRUE
  /\ LET isMarathi == containsMarathi(calls[c].searchText)
     IN  transliterationInfo' =
           <<[isMarathi |-> isMarathi,
              transliterated |-> IF isMarathi THEN calls[c].searchText
                                 ELSE transliterateToMarathi(ToLowerCase(calls[c].searchText))]>>
  /\ isLoading' = FALSE
  /\ rejectable' = IF ok THEN rejectable ELSE rejectable - 1
  /\ UNCHANGED <<formData, voters, index, pc, searchKeys, probe, voterIds, fetchIds,
                 batchStart, batchResults, results, normId, rv, requests, batches,
                 textVars, searchQuery, timeoutId, formVars>>

\* The search box: typing, the timer and the answers, in any order.
NextDebounce ==
  \/ \E text \in Queries : SetSearchQuery(text)
  \/ TimerFires
  \/ \E c \in 1..MaxCalls : \E ok \in BOOLEAN : CallSettles(c, ok)

\* The search box of the variant that searches while the user types.
SpecDebounce == InitDebounce /\ [][NextDebounce]_vars

\* C14: a response of an older search never replaces the results of a newer
\* one: once every search issued has been answered and the text in the box is
\* that of the search issued last, the results shown are those of that search.
C14_NewestResponseIsShown ==
  ( /\ Len(calls) >= 2
    /\ \A c \in 1..Len(calls) : calls[c].status = "settled"
    /\ timeoutId = <<>>
    /\ searchQuery = calls[Len(calls)].searchText ) =>
    searchResults = calls[Len(calls)].results

\* C14, what the code does: the results shown are empty or those of a search
\* that was answered, whichever was answered last.
C14_ResultsOfSomeSearch ==
  searchResults = <<>> \/ \E c \in 1..Len(calls) : searchResults = calls[c].results

\* C14: two searches were answered one after the other and the results of the
\* second are shown.
C14_SecondSearchShown ==
  /\ Len(calls) = 2
  /\ \A c \in 1..2 : calls[c].status = "settled"
  /\ calls[1].results # calls[2].results
  /\ calls[2].results # <<>>
  /\ searchResults = calls[2].results

-----------------------------------------------------------------------------
(* Properties of the resolution order and of the fetched records *)

\* C21: after the first probe of name_index that found a membership map the
\* name resolution issues no further probe, neither of the remaining keys of
\* name_index nor of any key of the two other indexes; the reads that follow
\* are the record reads of getVotersByIds for the IDs of that map.
C21_NoProbeAfterFirstTierHit ==
  \A r \in FoundIn("name_index") :
    /\ \A q \in IndexProbes : q <= r
    /\ \A q \in (r + 1)..Len(requests) :
         /\ requests[q].store = "voters"
         /\ requests[q].key \in MapOf(r)

\* C21: the first key of several was found in name_index while the other
\* indexes list the name too; the search is over and no other probe was issued.
C21_Witness ==
  /\ pc = "done"
  /\ Len(searchKeys) > 1
  /\ FoundIn("name_index") = {1}
  /\ IndexProbes = {1}
  /\ \E c \in DOMAIN index : c[1] # "name_index" /\ c[2] \in Range(searchKeys)
  /\ Len(requests) > 1

\* The length of the longest key of the table that starts at position i of the
\* word, among the substrings of 3, 2 and 1 characters; 0 when none is a key.
LongestKey(table, word, i) ==
  LET fits == {n \in 1..3 : /\ i + n - 1 <= Len(word)
                            /\ SubSeq(word, i, i + n - 1) \in DOMAIN table}
  IN  IF fits = {} THEN 0 ELSE CHOOSE n \in fits : \A m \in fits : m <= n

\* The greedy longest match as the specification words it, from position i.
RECURSIVE GreedyScan(_, _, _)
GreedyScan(table, word, i) ==
  IF i > Len(word) THEN <<>>
  ELSE LET n == LongestKey(table, word, i)
       IN  IF n = 0 THEN <<word[i]>> \o GreedyScan(table, word, i + 1)
           ELSE table[SubSeq(word, i, i + n - 1)] \o GreedyScan(table, word, i + n)

\* The tokens of the input, each as the dictionary has it or, without entry in
\* the dictionary, as the greedy longest match writes it, joined by blanks.
DictionaryOrGreedy(table, dictionary) ==
  Join([k \in 1..Len(InputTokens) |->
          IF InputTokens[k] \in DOMAIN dictionary THEN dictionary[InputTokens[k]]
          ELSE GreedyScan(table, InputTokens[k], 1)], 32)

\* No token of the input is the name of a property the dictionary inherits.
NoInheritedName == \A k \in 1..Len(InputTokens) : InputTokens[k] \notin DOMAIN inheritedProperties

\* C22: every token without entry in the dictionary is written by the greedy
\* longest match over the table, by transliterateToMarathi of lib/transliterate.js
\* and by the one written in TypeScript (on input without native script).
C22_GreedyLongestMatch ==
  /\ pc = "textDone" =>
       transliterated = DictionaryOrGreedy(englishToDevanagariMap, commonNamesMap)
  /\ (pc = "variantDone" /\ ~containsMarathi(value)) =>
       variation = DictionaryOrGreedy(transliterationMap, commonWordMap)

\* C22, what the code does: the same for every input none of whose tokens is the
\* name of an inherited property, and at every position of a token the scan
\* index goes up by the length of the longest key there or, without key, by
\* one, so by one at least (the scan written in TypeScript may add 3 or 2 where
\* a shorter key ends the token, which leaves the loop all the same).
C22_GreedyButInheritedNames ==
  /\ (pc = "textDone" /\ NoInheritedName) =>
       transliterated = DictionaryOrGreedy(englishToDevanagariMap, commonNamesMap)
  /\ (pc = "variantDone" /\ ~containsMarathi(value) /\ NoInheritedName) =>
       variation = DictionaryOrGreedy(transliterationMap, commonWordMap)
  /\ \A k \in 1..Len(InputTokens) : \A i \in 1..Len(InputTokens[k]) :
       LET word == InputTokens[k]
           inLib == LongestKey(englishToDevanagariMap, word, i)
           inVariant == LongestKey(transliterationMap, word, i)
       IN  /\ Advance(word, i) = (IF inLib = 0 THEN 1 ELSE inLib)
           /\ Advance(word, i) >= 1
           /\ inVariant = 0 <=> MatchedLen(word, i) = 0
           /\ MatchedLen(word, i) >= inVariant
           /\ Substr(word, i, MatchedLen(word, i)) = SubSeq(word, i, i + inVariant - 1)

\* C22: "tra" was written as the key "tr" and the key "a", not letter by letter,
\* by the function of lib/transliterate.js.
C22_Witness ==
  /\ pc = "textDone"
  /\ value = <<116, 114, 97>>
  /\ transliterated = englishToDevanagariMap[<<116, 114>>] \o englishToDevanagariMap[<<97>>]
  /\ transliterated # englishToDevanagariMap[<<116>>] \o englishToDevanagariMap[<<114>>]
                        \o englishToDevanagariMap[<<97>>]

\* The IDs of a sequence of results, in order.
IdsOf(seq) == [k \in 1..Len(seq) |-> seq[k].id]

\* The IDs of the list, in the order of the list, that are in the set.
Restricted(ids, set) == SelectSeq(ids, LAMBDA id : id \in set)

\* The IDs whose record was read and could be processed: the record has a name.
ProcessedIds == {id \in ReadIds("found") : ~ProcessThrows(voters[id])}

\* C23: what getVotersByIds returns is its list of IDs, in the order of the list,
\* restricted to the IDs whose record was read.
C23_InputOrderOfReadRecords ==
  (pc = "done" /\ Route(formData) = "name" /\ fetchIds # <<>>) =>
    ResultIds = Restricted(fetchIds, ReadIds("found"))

\* C23, what the code does: the results are the IDs of the list, in the order of
\* the list, whose record was read and has a name. While a batch is under way
\* the results collected are those of the batches before it, and every read
\* that has ended, in whatever order, has put its result at the place of its ID
\* in the batch.
C23_InputOrderOfProcessedRecords ==
  /\ (pc = "done" /\ Route(formData) = "name" /\ fetchIds # <<>>) =>
       ResultIds = Restricted(fetchIds, ProcessedIds)
  /\ (pc = "fetch") =>
       /\ IdsOf(results) = Restricted(SubSeq(fetchIds, 1, batchStart), ProcessedIds)
       /\ \A k \in 1..Len(batchResults) :
            batchResults[k] \notin {Unsettled, Null} =>
              batchResults[k].id = fetchIds[batchStart + k]

\* C23: a read of the batch has ended with a record while the read issued
\* before it is still outstanding, and the IDs are not listed in their order
\* in the store.
C23_LaterReadEndedFirst ==
  /\ pc = "fetch"
  /\ Len(fetchIds) = 2
  /\ StrLess(fetchIds[2], fetchIds[1])
  /\ batchResults[1] = Unsettled
  /\ batchResults[2] \notin {Unsettled, Null}

\* C23: the reads of a batch ended and the results hold the records in the order
\* of the list, which is not their order in the store.
C23_Witness ==
  /\ pc = "done"
  /\ Route(formData) = "name"
  /\ Len(fetchIds) = 2
  /\ StrLess(fetchIds[2], fetchIds[1])
  /\ ResultIds = fetchIds

\* C24: the sequence performSearch returns holds each voter-ID at most once,
\* whatever the store and the form hold, as do the IDs the name resolution
\* collects and the results getVotersByIds has collected so far.
C24_NoDuplicateResults ==
  /\ NoDuplicates(voterIds)
  /\ NoDuplicates(IdsOf(results))
  /\ pc = "done" => NoDuplicates(ResultIds)

\* C24: the same ID is listed by name_index_first_last and by name_index_last,
\* both entries were read, and the result holds it once.
C24_Witness ==
  /\ pc = "done"
  /\ \E r2 \in FoundIn("name_index_first_last"), r3 \in FoundIn("name_index_last") :
       \E id \in MapOf(r2) \cap MapOf(r3) :
         Cardinality({k \in 1..Len(rv) : rv[k].id = id}) = 1

\* C25: without voter ID and with a last name that is empty once trimmed,
\* generateSearchKeys returns no key, no read is issued, neither of an index nor
\* of a record, and performSearch returns the empty sequence, whatever the first
\* and the middle name hold.
C25_LastNameRequired ==
  (formData.voterId = <<>> /\ Trim(formData.lastName) = <<>>) =>
    /\ generateSearchKeys(formData.firstName, formData.middleName, formData.lastName) = <<>>
    /\ searchKeys = <<>>
    /\ requests = <<>>
    /\ pc \in {"idle", "done"}
    /\ pc = "done" => rv = <<>>

\* C25: a search with first and middle name and a blank last name has returned
\* nothing, on a store whose index lists the first name under first_last keys.
C25_Witness ==
  /\ pc = "done"
  /\ formData.voterId = <<>>
  /\ formData.firstName # <<>>
  /\ formData.middleName # <<>>
  /\ formData.lastName = <<32>>
  /\ index = ExampleIndex
  /\ requests = <<>>
  /\ rv = <<>>

-----------------------------------------------------------------------------
(* components/Dashboard.tsx: the Dashboard component with the search form, its
   two tabs and its handlers *)

\* Largest value of searchStats.timeTaken, in milliseconds.
MaxTime == 1

\* Largest number of alerts shown.
MaxAlerts == 2

\* searchMethod of a search by voter ID: 'EPIC ID ' U+0936 U+094B U+0927
EpicMethod == <<69, 80, 73, 67, 32, 73, 68, 32, 2358, 2379, 2343>>

\* searchMethod of a search by name: U+0928 U+093E U+0935, a blank, U+0936 U+094B U+0927
NameMethod == <<2344, 2366, 2357, 32, 2358, 2379, 2343>>

\* What the user types into a field: "", "ram" / "", "das" / "", "patil" into
\* the name fields, "", "uxm01", "M1" into the EPIC field.
Typed ==
  [firstName |-> {<<>>, <<114, 97, 109>>},
   middleName |-> {<<>>, <<100, 97, 115>>},
   lastName |-> {<<>>, <<112, 97, 116, 105, 108>>},
   voterId |-> {<<>>, <<117, 120, 109, 48, 49>>, <<77, 49>>}]

\* Rejected for a handleSearch that turns no form down.
RejectedNever(fd, tab) == FALSE

\* handleSearch: whether the form is turned down with an alert.
Rejected(fd, tab) ==
  \/ tab = "name" /\ (fd.firstName = <<>> \/ fd.lastName = <<>>)
  \/ tab = "epic" /\ fd.voterId = <<>>

\* Disabled for a button that is never disabled.
NeverDisabled == FALSE

\* The attribute `disabled` of the search button of the active tab.
Disabled ==
  \/ isLoading
  \/ IF activeTab = "name" THEN formData.firstName = <<>> \/ formData.lastName = <<>>
     ELSE formData.voterId = <<>>

\* handleSearch up to its await: the form is turned down with an alert, or the
\* flags are set and performSearch(formData) runs up to its first await.
HandleSearch ==
  IF Rejected(formData, activeTab)
    THEN /\ alerts < MaxAlerts
         /\ alerts' = alerts + 1
         /\ UNCHANGED <<formData, voters, index, pc, searchKeys, probe, voterIds,
                        fetchIds, batchStart, batchResults, results, normId, rv,
                        requests, batches, rejectable, textVars, uiVars, activeTab,
                        transliterationHints, searchType, searchStats, searchForm>>
    ELSE /\ isLoading' = TRUE
         /\ searchPerformed' = TRUE
         /\ searchType' = IF formData.voterId # <<>> THEN "voterId" ELSE "name"
         /\ searchForm' = Append(searchForm, formData)
         /\ CallPerformSearch
         /\ UNCHANGED <<textVars, searchQuery, timeoutId, calls, searchResults,
                        transliterationInfo, activeTab, transliterationHints,
                        searchStats, alerts>>

\* LoadingAfterSearch without the finally of handleSearch.
LoadingLeftOn == TRUE

\* handleSearch: finally { setIsLoading(false) }
LoadingAfterSearch == FALSE

\* onClick={handleSearch} of the search button of the active tab.
ClickSearch == ~Disabled /\ HandleSearch

\* handleSearch after `await performSearch(formData)`: the results and the
\* statistics are set and, in the finally, isLoading is reset. The locals of
\* the performSearch call are gone. performSearch catches what its reads throw,
\* so the catch of handleSearch is never entered.
SearchReturns(timeTaken) ==
  /\ pc = "done"
  /\ searchForm # <<>>
  /\ searchResults' = rv
  /\ LET fd == Head(searchForm)
     IN  searchStats' =
           [totalFound |-> Len(rv),
            timeTaken |-> timeTaken,
            searchMethod |-> IF fd.voterId # <<>> THEN EpicMethod
                             ELSE IF fd.firstName # <<>> /\ fd.lastName # <<>>
                               THEN NameMethod
                             ELSE <<>>]
  /\ isLoading' = LoadingAfterSearch
  /\ searchForm' = Tail(searchForm)
  /\ pc' = "form"
  /\ searchKeys' = <<>>
  /\ probe' = <<0, 0>>
  /\ voterIds' = <<>>
  /\ fetchIds' = <<>>
  /\ batchStart' = 0
  /\ batchResults' = <<>>
  /\ results' = <<>>
  /\ normId' = <<>>
  /\ rv' = <<>>
  /\ requests' = <<>>
  /\ batches' = <<>>
  /\ UNCHANGED <<formData, voters, index, rejectable, textVars, searchQuery, timeoutId,
                 calls, searchPerformed, transliterationInfo, activeTab,
                 transliterationHints, searchType, alerts>>

\* clearSearch
ClearSearch ==
  /\ formData' = EmptyForm
  /\ transliterationHints' = NoHints
  /\ searchResults' = <<>>
  /\ searchPerformed' = FALSE
  /\ searchType' = <<>>
  /\ searchStats' = NoStats
  /\ UNCHANGED <<voters, index, pc, searchKeys, probe, voterIds, fetchIds, batchStart,
                 batchResults, results, normId, rv, requests, batches, rejectable,
                 textVars, searchQuery, timeoutId, calls, isLoading,
                 transliterationInfo, activeTab, searchForm, alerts>>

\* handleInputChange: the hint shown under the field.
Hint(text) ==
  IF text # <<>> /\ ~containsMarathi(text) /\ transliterateToMarathi(text) # text
    THEN transliterateToMarathi(text)
    ELSE <<>>

\* onChange of an input of the active tab: handleInputChange(field, value); the
\* EPIC field hands over e.target.value.toUpperCase().
HandleInputChange(field, text) ==
  /\ IF field = "voterId" THEN activeTab = "epic" ELSE activeTab = "name"
  /\ LET text_ == IF field = "voterId" THEN ToUpperCase(text) ELSE text
     IN  /\ formData' = [formData EXCEPT ![field] = text_]
         /\ transliterationHints' =
              [f \in DOMAIN transliterationHints \cup {field} |->
                 IF f = field THEN Hint(text_) ELSE transliterationHints[f]]
  /\ UNCHANGED <<voters, index, pc, searchKeys, probe, voterIds, fetchIds, batchStart,
                 batchResults, results, normId, rv, requests, batches, rejectable,
                 textVars, uiVars, activeTab, searchType, searchStats, searchForm,
                 alerts>>

\* onClick={() => setActiveTab(tab)} of a tab button
SetActiveTab(tab) ==
  /\ activeTab' = tab
  /\ UNCHANGED <<formData, voters, index, pc, searchKeys, probe, voterIds, fetchIds,
                 batchStart, batchResults, results, normId, rv, requests, batches,
                 rejectable, textVars, uiVars, transliterationHints, searchType,
                 searchStats, searchForm, alerts>>

\* The steps of a performSearch call between its awaits.
SearchStep ==
  \/ \E ok \in BOOLEAN : ProbeSettles(ok)
  \/ \E r \in 1..Len(requests), ok \in BOOLEAN : ReadSettles(r, ok)
  \/ BatchDone
  \/ \E ok \in BOOLEAN : ExactSettles(ok)
  \/ \E ok \in BOOLEAN : ScanSettles(ok)

\* The component after it mounted, on the example store.
InitForm ==
  /\ pc = "form"
  /\ InitLocals
  /\ InitAside
  /\ formData = EmptyForm
  /\ index = ExampleIndex
  /\ voters = VoterStore(2, {}, {})
  /\ rejectable = MaxFailures

\* The user's clicks and edits, and the steps of the search under way.
NextForm ==
  \/ ClickSearch
  \/ ClearSearch
  \/ \E field \in DOMAIN Typed : \E text \in Typed[field] : HandleInputChange(field, text)
  \/ \E tab \in {"name", "epic"} : SetActiveTab(tab)
  \/ SearchStep
  \/ \E timeTaken \in 0..MaxTime : SearchReturns(timeTaken)

\* The Dashboard component with the search form in the user's hands.
SpecForm == InitForm /\ [][NextForm]_vars


\* The result of a search by voter ID for "UXM01" on the example store.
FoundById == <<SearchResult(VoterIdAt(1), VoterStore(2, {}, {})[VoterIdAt(1)])>>

\* The state of the results the component can be in before handleSearch runs:
\* as mounted or cleared, or after a search by voter ID that found a record.
ResultStates ==
  { [searchPerformed |-> FALSE, searchResults |-> <<>>, searchType |-> <<>>,
     searchStats |-> NoStats],
    [searchPerformed |-> TRUE, searchResults |-> FoundById, searchType |-> "voterId",
     searchStats |-> [totalFound |-> 1, timeTaken |-> 0, searchMethod |-> EpicMethod]] }

\* handleSearch is about to be invoked on any form, on either tab.
InitHandler ==
  /\ pc = "form"
  /\ InitLocals
  /\ InitNoCall
  /\ formData \in [firstName : Typed.firstName, middleName : Typed.middleName,
                   lastName : Typed.lastName,
                   voterId : {ToUpperCase(text) : text \in Typed.voterId}]
  /\ activeTab \in {"name", "epic"}
  /\ \E state \in ResultStates :
       /\ searchPerformed = state.searchPerformed
       /\ searchResults = state.searchResults
       /\ searchType = state.searchType
       /\ searchStats = state.searchStats
  /\ isLoading = FALSE
  /\ transliterationHints = NoHints
  /\ searchForm = <<>>
  /\ alerts = 0
  /\ searchQuery = <<>>
  /\ timeoutId = <<>>
  /\ calls = <<>>
  /\ transliterationInfo = <<>>
  /\ index = ExampleIndex
  /\ voters = VoterStore(2, {}, {})
  /\ rejectable = MaxFailures

\* handleSearch is invoked on the component at rest.
InvokeHandleSearch == pc = "form" /\ HandleSearch

\* Invocations of handleSearch and the steps of the searches they start.
NextHandler ==
  \/ InvokeHandleSearch
  \/ SearchStep
  \/ \E timeTaken \in 0..MaxTime : SearchReturns(timeTaken)

\* handleSearch on every form and tab, one invocation after the other.
SpecHandler == InitHandler /\ [][NextHandler]_vars

\* The buttons of a form that is filled in, and the steps of the search.
NextButtons ==
  \/ ClickSearch
  \/ ClearSearch
  \/ \E tab \in {"name", "epic"} : SetActiveTab(tab)
  \/ SearchStep
  \/ \E timeTaken \in 0..MaxTime : SearchReturns(timeTaken)

\* The buttons with the fairness of the network and of the scheduler: a read
\* that is outstanding ends, and a handler that can resume does.
SpecButtonsFair ==
  /\ InitHandler
  /\ [][NextButtons]_vars
  /\ WF_vars(SearchStep)
  /\ WF_vars(\E timeTaken \in 0..MaxTime : SearchReturns(timeTaken))

-----------------------------------------------------------------------------
(* Properties of the search form *)

\* C26: isLoading is true exactly while a performSearch started by handleSearch
\* is pending, and after every started search it becomes false again, whether
\* the search returns results, returns nothing or a read of it fails.
C26_LoadingWhileSearching ==
  /\ [](isLoading <=> searchForm # <<>>)
  /\ [](isLoading <=> pc # "form")
  /\ isLoading ~> ~isLoading

\* C26, while the user edits the form as well: isLoading is true exactly while
\* a search is pending.
C26_LoadingIffPending ==
  /\ isLoading <=> searchForm # <<>>
  /\ isLoading <=> pc # "form"

\* C26: a search that met a rejected read has returned nothing and isLoading
\* is false again.
C26_Witness ==
  /\ pc = "form"
  /\ ~isLoading
  /\ searchPerformed
  /\ rejectable < MaxFailures
  /\ searchResults = <<>>
  /\ searchStats.searchMethod # <<>>

\* C26: a search has returned results and isLoading is false again.
C26_ResultsShown ==
  /\ pc = "form"
  /\ ~isLoading
  /\ searchPerformed
  /\ searchResults # <<>>

\* C27: at most one performSearch started by handleSearch is pending, and a
\* search starts only when none is pending.
C27_OneSearchInFlight ==
  /\ [](Len(searchForm) <= 1)
  /\ [][Len(searchForm') > Len(searchForm) => (searchForm = <<>> /\ ~isLoading)]_vars

\* C27: during a search the form was cleared and filled again and the tab was
\* switched; the form is complete, and the button is disabled by isLoading.
C27_Witness ==
  /\ Len(searchForm) = 1
  /\ isLoading
  /\ ~searchPerformed
  /\ formData # searchForm[1]
  /\ activeTab = "name"
  /\ searchForm[1].voterId # <<>>
  /\ formData.firstName # <<>> /\ formData.lastName # <<>>
  /\ Disabled

\* C28: after clearSearch and until handleSearch is invoked again, which is
\* while searchPerformed is false, searchResults is empty and searchStats and
\* searchType are reset.
C28_ClearedStaysCleared ==
  ~searchPerformed =>
    /\ searchResults = <<>>
    /\ searchStats = NoStats
    /\ searchType = <<>>

\* C28, what the code does: while searchPerformed is false searchType is null
\* and the statistics count the results held, which are those of the search
\* that was under way when the form was cleared, or none.
C28_ClearedButForTheSearchUnderWay ==
  ~searchPerformed =>
    /\ searchType = <<>>
    /\ searchStats.totalFound = Len(searchResults)
    /\ (searchResults # <<>> => searchStats.searchMethod # <<>>)

\* C28: the form was cleared during a search and the results of that search
\* are held although searchPerformed is false.
C28_ResultsAfterClear ==
  /\ pc = "form"
  /\ ~searchPerformed
  /\ formData = EmptyForm
  /\ searchResults # <<>>
  /\ searchStats.totalFound = 1

\* The form handleSearch is to turn down: the name tab without first name or
\* without last name, the EPIC tab without voter ID.
InvalidForm ==
  \/ activeTab = "name" /\ (formData.firstName = <<>> \/ formData.lastName = <<>>)
  \/ activeTab = "epic" /\ formData.voterId = <<>>

\* C29: handleSearch invoked on such a form, while no search is under way,
\* issues no read and leaves isLoading, searchPerformed, searchResults,
\* searchType and searchStats unchanged (it shows an alert).
C29_RejectedChangesNothing ==
  [][(InvalidForm /\ searchForm = <<>>) =>
       /\ alerts' = alerts + 1
       /\ UNCHANGED <<isLoading, searchPerformed, searchResults, searchType,
                      searchStats, requests, searchForm, pc, formData, activeTab>>]_vars

\* C29: handleSearch has turned down a form on the name tab that holds a voter
\* ID but no first name; the results of the search before are still shown.
C29_Witness ==
  /\ alerts > 0
  /\ activeTab = "name"
  /\ formData.firstName = <<>>
  /\ formData.voterId # <<>>
  /\ ~isLoading
  /\ requests = <<>>
  /\ searchPerformed
  /\ searchResults = FoundById

\* C30: a tab switch changes activeTab and nothing else, and every search that
\* handleSearch starts with a voter ID in the form, from either tab, is
\* resolved by voter ID: no key is generated, no index is probed, no batch is
\* fetched and the result is that of the voter-ID resolution.
C30_VoterIdWinsOnEitherTab ==
  /\ []((searchForm # <<>> /\ searchForm[1].voterId # <<>>) =>
          /\ pc \in {"exact", "scan", "done"}
          /\ normId = ToUpperCase(Trim(searchForm[1].voterId))
          /\ IndexProbes = {}
          /\ searchKeys = <<>> /\ voterIds = <<>> /\ fetchIds = <<>>
          /\ requests[1].key = normId
          /\ pc = "done" => rv = VoterIdOutcome(normId))
  /\ [][activeTab' # activeTab =>
          UNCHANGED <<formData, transliterationHints, searchResults, searchPerformed,
                      isLoading, searchType, searchStats, searchForm, pc, requests>>]_vars

\* C30: a search started from the name tab with first name, last name and voter
\* ID has ended with the record of the voter ID.
C30_Witness ==
  /\ pc = "done"
  /\ activeTab = "name"
  /\ searchForm # <<>>
  /\ formData = searchForm[1]
  /\ formData.firstName # <<>> /\ formData.lastName # <<>>
  /\ formData.voterId = VoterIdAt(1)
  /\ searchType = "voterId"
  /\ rv = FoundById

=============================================================================
